---- MODULE Spec2Model ----
(***************************************************************************)
(* Model of the knowbase indexing pipeline: the relational catalog         *)
(* (documents, chunks), the object store, the per-KB vector collection,    *)
(* the Celery queue with its workers, the document API handlers and the    *)
(* search endpoint with its result cache.                                  *)
(*                                                                         *)
(* One knowledge base is modelled.  Every database commit and every call   *)
(* to an external service is one atomic step; steps of different workers   *)
(* and handlers interleave freely.  The catalog follows the file_name /    *)
(* storage_path shape of alembic revision 001_initial that the handlers    *)
(* use.  The AsyncSession is built with expire_on_commit=False, so a       *)
(* worker keeps the Document attributes it loaded.                         *)
(***************************************************************************)
EXTENDS Integers, FiniteSets, Sequences, Bags, TLC

\* ---------------------------------------------------------------- bounds
Docs == {"d1"}
Workers == {"w1", "w2"}
\* the largest number of chunks the chunker returns for one document
MaxChunks == 2
\* the number of uuid4 values that can be minted in one behaviour
MaxIds == 4
\* the number of task messages API handlers may have waiting in the broker
MaxQueue == 2
\* the number of tasks in the broker or on a worker once a task has sent its
\* retry messages
MaxInFlight == 2
\* the number of errors raised by the services around the pipeline (object
\* store, vector store, embedding API, database, broker) and of lost workers
MaxFaults == 1
\* the number of reprocess_documents and process_pending requests
MaxRequests == 1
\* the chunk ids a sub-search can return, and the longest list it returns
ChunkIds == {"c1", "c2", "c3"}
MaxHits == 2
\* the largest top_k and the largest rerank.top_k of a search request
MaxTopK == 2
MaxRerankTopK == 3
\* the number of files in one upload request
MaxFiles == 3
\* CacheConfig.max_results of the cache under study (the default is 100)
CacheMaxResults == 2
\* the most invalidations of the search cache followed
MaxInvalidations == 1
\* the longest text handed to the chunker, the largest chunk_size and
\* chunk_overlap, and the most passes of the fixed-size loop followed
MaxTextLen == 5
MaxChunkSize == 4
MaxIterations == 7
\* the longest result list handed to _fuse_results under each strategy
MaxFuseLen == 3
\* the chunk ids of the lists handed to _rrf_fusion, and their longest length
FusionIds == {"A", "B", "C", "D", "E", "F"}
MaxFusionLen == 4

\* the number of texts handed to embed_texts and the largest batch_size
MaxTexts == 3
MaxBatchSize == 3

\* ---------------------------------------------------- program constants
\* EmbeddingConfig.max_retries
EmbedMaxRetries == 3
\* process_document_task(max_retries=3)
MaxRetries == 3
\* HybridConfig.rrf_k
RrfK == 60

VARIABLES
    documents,   \* catalog: documents table, one row per document id
    chunks,      \* catalog: committed rows of the chunks table
    vectors,     \* points of the knowledge base's Qdrant collection
    collection,  \* whether the knowledge base's collection exists
    blobs,       \* document ids whose blob is in the object store
    queue,       \* bag of task messages waiting in the broker
    worker,      \* per Celery worker: position in its task and its locals
    nextId,      \* the next unused uuid4
    deleting,    \* documents whose delete_document handler has not committed
    cache,       \* the search cache entry of (K, q, config, filters)
    lastSearch,  \* what the most recent search request returned
    dvDone,      \* history: documents whose delete-vectors task has run
    faults,      \* the number of service errors and lost workers so far
    requests,    \* the number of reprocess / process_pending requests so far
    retrieval,   \* one call of HybridRetriever.search / RetrievalPipeline.search
    upload,      \* one write request: upload_documents or push_document
    store,       \* Redis: per cache key, the entry stored under it
    cacheCall,   \* one search request with its cache calls, or one invalidation
    knowledge_base,  \* catalog: the knowledge base row, its tags and permissions
    fusion,      \* one call of HybridRetriever._fuse_results
    taskRun,     \* the executions of one process_document task and of its retries
    embed,       \* one call of OpenAIEmbeddingService.embed_texts
    chunker,     \* one call of DocumentChunker.chunk and the chunks made so far
    searches     \* concurrent POST /search requests, their Redis, an invalidation

\* the variables of the document pipeline and of the search endpoint
pipelineVars == <<documents, chunks, vectors, collection, blobs, queue, worker,
                  nextId, deleting, cache, lastSearch, dvDone, faults, requests>>

\* the variables the document pipeline never touches
otherVars == <<retrieval, upload, store, cacheCall, knowledge_base, fusion, taskRun, embed, chunker, searches>>

\* all variables but the ones a call of its own subsystem changes
notRetrieval == <<pipelineVars, upload, store, cacheCall, knowledge_base, fusion, taskRun, embed, chunker, searches>>
notUpload == <<pipelineVars, retrieval, store, cacheCall, knowledge_base, fusion, taskRun, embed, chunker, searches>>
notCache == <<pipelineVars, retrieval, upload, knowledge_base, fusion, taskRun, embed, chunker, searches>>
notKb == <<retrieval, upload, store, cacheCall, fusion, taskRun, embed, chunker, searches>>
notFusion == <<pipelineVars, retrieval, upload, store, cacheCall, knowledge_base, taskRun, embed, chunker, searches>>
notTaskRun == <<pipelineVars, retrieval, upload, store, cacheCall, knowledge_base, fusion, embed, chunker, searches>>
notEmbed == <<pipelineVars, retrieval, upload, store, cacheCall, knowledge_base, fusion, taskRun, chunker, searches>>
notChunker == <<pipelineVars, retrieval, upload, store, cacheCall, knowledge_base, fusion, taskRun, embed, searches>>
notSearches == <<pipelineVars, retrieval, upload, store, cacheCall, knowledge_base, fusion, taskRun, embed, chunker>>

vars == <<pipelineVars, otherVars>>

\* ------------------------------------------------------------ data shapes
NoTask == [name |-> "none", document_id |-> "none", force |-> FALSE, retries |-> 0]

ProcessTask(d, force, retries) ==
    [name |-> "process_document", document_id |-> d, force |-> force,
     retries |-> retries]

DeleteVectorsTask(d) ==
    [name |-> "delete_document_vectors", document_id |-> d, force |-> FALSE,
     retries |-> 0]

\* DocumentStatus, plus NONE (never uploaded) and DELETED (row removed)
RowStatus == {"PENDING", "PROCESSING", "COMPLETED", "FAILED"}

NewDocument ==
    [status |-> "PENDING", chunk_count |-> 0, retry_count |-> 0,
     error_message |-> "none"]

Exists(d) == documents[d].status \in RowStatus

ChunksOf(d) == {c \in chunks : c.document_id = d}

VectorsOf(d) == {v \in vectors : v.document_id = d}

\* ProcessingResult, as far as the callers read it: success, chunk_count and
\* whether it is the "Document already processed" return
ProcessingResult(success, chunk_count, already) ==
    [returned |-> TRUE, success |-> success, chunk_count |-> chunk_count,
     already_processed |-> already]

NoResult ==
    [returned |-> FALSE, success |-> FALSE, chunk_count |-> 0,
     already_processed |-> FALSE]

IdleWorker ==
    [pc |-> "idle", task |-> NoTask, loaded |-> "none", n |-> 0,
     vector_ids |-> {}, chunk_records |-> {},
     poisoned |-> FALSE, error |-> "none", peer_completed |-> FALSE,
     result |-> NoResult]

NoEntry == [present |-> FALSE, results |-> {}, stale |-> FALSE]

NoSearch == [done |-> FALSE, from_cache |-> FALSE, stale |-> FALSE, results |-> {}]

Enqueue(q, t) == q (+) SetToBag({t})

Dequeue(q, t) == q (-) SetToBag({t})

\* a document event (completed, failed, deleted) happened after the cache
\* entry was stored; nothing in the pipeline touches the cache itself
\* a step in which a service raises an error (or a worker is lost) when
\* fault is TRUE
Fault(fault) ==
    /\ fault => faults < MaxFaults
    /\ faults' = IF fault THEN faults + 1 ELSE faults

Request ==
    /\ requests < MaxRequests
    /\ requests' = requests + 1

NoteEvent(c) == IF c.present THEN [c EXCEPT !.stale = TRUE] ELSE c

\* what a sub-search hands back: a list of hits, or an exception
Outcome(raised, hits) == [raised |-> raised, hits |-> hits]

NoCall ==
    [phase |-> "idle", kind |-> "none", mode |-> "none",
     semantic |-> Outcome(FALSE, <<>>), keyword |-> Outcome(FALSE, <<>>),
     top_k |-> 0, score_threshold |-> 0, rerank |-> FALSE, rerank_top_k |-> 0,
     relevance |-> [c \in ChunkIds |-> 0], response |-> Outcome(FALSE, <<>>)]

\* no call of DocumentChunker.chunk under way
NoChunker ==
    [phase |-> "idle", strategy |-> "none", text |-> <<>>, chunk_size |-> 0,
     chunk_overlap |-> 0, start |-> 0, index |-> 0, iterations |-> 0,
     chunks |-> <<>>]

\* no call of embed_texts under way
NoEmbed ==
    [phase |-> "idle", texts |-> <<>>, batch_size |-> 0, i |-> 0, attempt |-> 0,
     log |-> <<>>, slept |-> <<>>, all_vectors |-> <<>>, raised |-> FALSE,
     permuted |-> FALSE]

\* before the process_document task of a document is sent
NoTaskRun ==
    [sent |-> FALSE, broker |-> EmptyBag, running |-> NoTask, executions |-> 0,
     returned |-> "none"]

\* no call of _fuse_results under way; HybridConfig.fusion_strategy is RRF
NoFusion ==
    [phase |-> "idle", strategy |-> "rrf", semantic_results |-> <<>>,
     keyword_results |-> <<>>, fused_results |-> <<>>]

\* a write request before it arrives: files holds, per file of the request,
\* whether its extension has a registered parser
NoUpload ==
    [phase |-> "idle", endpoint |-> "none", files |-> <<>>, i |-> 1,
     stored |-> {}, added |-> {}, rows |-> {}, sent |-> {}, failed |-> {},
     raised |-> FALSE]

\* knowledge bases, search configurations (SearchConfig and filters) and
\* query texts of the cache under study
KBs == {"k1", "k2"}
Configs == {"cfgA", "cfgB"}
RawQueries == {"q", " Q"}

\* query.strip().lower()
Normalize(query) == IF query = " Q" THEN "q" ELSE query

\* SearchCache._generate_cache_key: "{prefix}:{kb}:{md5 of query, kb, config,
\* filters}"; the hash is taken as free of collisions
CacheKey(query, kb, config) ==
    [kb |-> kb, hash |-> <<Normalize(query), kb, config>>]

CacheKeys == {CacheKey(q, k, c) : q \in RawQueries, k \in KBs, c \in Configs}

\* a key of Redis: nothing stored, or the JSON list set() wrote; origin
\* remembers the result list that set() was handed
NoCacheEntry == [present |-> FALSE, data |-> <<>>, origin |-> <<>>]

EmptyStore == [key \in CacheKeys |-> NoCacheEntry]

NoCacheCall ==
    [phase |-> "idle", op |-> "none", kb |-> "none", query |-> "none",
     config |-> "none", results |-> <<>>, use_cache |-> FALSE,
     cache_empty |-> FALSE, get_error |-> FALSE, set_error |-> FALSE,
     from_cache |-> FALSE, response |-> <<>>, raised |-> FALSE,
     origin |-> <<>>, before |-> EmptyStore, deleted |-> 0, failed |-> FALSE]

\* the part of a search request that decides what the pipeline does and is
\* not an argument of the cache key: mode, hybrid options, rerank options
Plans ==
    {[mode |-> "semantic", fusion_strategy |-> "rrf", rerank |-> FALSE],
     [mode |-> "hybrid", fusion_strategy |-> "rrf", rerank |-> FALSE],
     [mode |-> "hybrid", fusion_strategy |-> "weighted", rerank |-> TRUE]}

NoPlan == [mode |-> "none", fusion_strategy |-> "none", rerank |-> FALSE]

\* the requests that run side by side, all on the knowledge base SearchedKb
\* with the same query
Requesters == {"r1", "r2"}
SearchedKb == "k1"
SearchedKeys == {CacheKey("q", SearchedKb, config) : config \in Configs}

\* a request: its plan and SearchConfig, the results of its pipeline.search
\* (seen: how many invalidations had begun when they were computed), and what
\* it answers (served: the cache entry handed back on a hit)
NoRequest ==
    [phase |-> "idle", plan |-> NoPlan, config |-> "none", seen |-> 0,
     from_cache |-> FALSE, served |-> [by |-> NoPlan, late |-> FALSE]]

\* an entry of Redis: by is the plan of the request that stored it, late
\* whether an invalidation began after its results were computed and ended
\* before they were stored
NoStored == [present |-> FALSE, by |-> NoPlan, late |-> FALSE]

NoSearches ==
    [request |-> [r \in Requesters |-> NoRequest],
     redis |-> [key \in SearchedKeys |-> NoStored],
     scanning |-> FALSE, todo |-> {}, begun |-> 0, ended |-> 0]

\* the knowledge base K as create_knowledge_base leaves it: the row, no tag
\* row, no user_kb_permissions row
NewKnowledgeBase == [exists |-> TRUE, tags |-> {}, permissions |-> {}]

Init ==
    /\ documents = [d \in Docs |-> [NewDocument EXCEPT !.status = "NONE"]]
    /\ chunks = {}
    /\ vectors = {}
    /\ collection = FALSE
    /\ blobs = {}
    /\ queue = EmptyBag
    /\ worker = [w \in Workers |-> IdleWorker]
    /\ nextId = 1
    /\ deleting = {}
    /\ cache = NoEntry
    /\ lastSearch = NoSearch
    /\ dvDone = {}
    /\ faults = 0
    /\ requests = 0
    /\ retrieval = NoCall
    /\ upload = NoUpload
    /\ store = EmptyStore
    /\ cacheCall = NoCacheCall
    /\ knowledge_base = NewKnowledgeBase
    /\ fusion = NoFusion
    /\ taskRun = NoTaskRun
    /\ embed = NoEmbed
    /\ chunker = NoChunker
    /\ searches = NoSearches

\* ------------------------------------------------------------ API handlers

\* upload_documents / push_document for one file: the blob is stored, the row
\* is committed PENDING, then the processing task is sent; send_task_async
\* returns None instead of raising when the broker refuses the message.
Upload(d, sent) ==
    /\ documents[d].status = "NONE"
    /\ BagCardinality(queue) < MaxQueue
    /\ blobs' = blobs \cup {d}
    /\ documents' = [documents EXCEPT ![d] = NewDocument]
    /\ queue' = IF sent THEN Enqueue(queue, ProcessTask(d, FALSE, 0)) ELSE queue
    /\ Fault(~sent)
    /\ UNCHANGED requests
    /\ UNCHANGED <<chunks, vectors, collection, worker, nextId, deleting, cache,
                   lastSearch, dvDone>>
    /\ UNCHANGED otherVars

\* reprocess_documents for one id: whatever the status, it is reset to
\* PENDING and committed, then a force=True processing task is sent.
Reprocess(d, sent) ==
    /\ Exists(d)
    /\ BagCardinality(queue) < MaxQueue
    /\ documents' = [documents EXCEPT ![d].status = "PENDING"]
    /\ queue' = IF sent THEN Enqueue(queue, ProcessTask(d, TRUE, 0)) ELSE queue
    /\ Fault(~sent)
    /\ Request
    /\ UNCHANGED <<chunks, vectors, collection, blobs, worker, nextId, deleting,
                   cache, lastSearch, dvDone>>
    /\ UNCHANGED otherVars

\* process_pending_documents_task: every PENDING document is handed to
\* process_documents_batch_task, which queues one process_document task each.
PendingIds == {d \in Docs : documents[d].status = "PENDING"}

ProcessPending ==
    /\ PendingIds # {}
    /\ BagCardinality(queue) + Cardinality(PendingIds) <= MaxQueue
    /\ queue' = queue (+) SetToBag({ProcessTask(d, FALSE, 0) : d \in PendingIds})
    /\ Request
    /\ UNCHANGED faults
    /\ UNCHANGED <<documents, chunks, vectors, collection, blobs, worker, nextId,
                   deleting, cache, lastSearch, dvDone>>
    /\ UNCHANGED otherVars

\* delete_document up to the send: the row is loaded, the blob is deleted (an
\* error is logged and ignored), the delete-vectors task is sent.
DeleteStart(d, blobDeleted, sent) ==
    /\ Exists(d)
    /\ d \notin deleting
    /\ BagCardinality(queue) < MaxQueue
    /\ blobs' = IF blobDeleted THEN blobs \ {d} ELSE blobs
    /\ queue' = IF sent THEN Enqueue(queue, DeleteVectorsTask(d)) ELSE queue
    /\ deleting' = deleting \cup {d}
    /\ Fault(~blobDeleted \/ ~sent)
    /\ UNCHANGED requests
    /\ UNCHANGED <<documents, chunks, vectors, collection, worker, nextId, cache,
                   lastSearch, dvDone>>
    /\ UNCHANGED otherVars

\* delete_document, the commit: the row goes and its chunk rows with it
\* (relationship cascade, and ON DELETE CASCADE of chunks.document_id).
DeleteCommit(d) ==
    /\ d \in deleting
    /\ deleting' = deleting \ {d}
    /\ documents' = [documents EXCEPT ![d].status = "DELETED"]
    /\ chunks' = chunks \ ChunksOf(d)
    /\ cache' = NoteEvent(cache)
    /\ UNCHANGED <<faults, requests>>
    /\ UNCHANGED <<vectors, collection, blobs, queue, worker, nextId, lastSearch,
                   dvDone>>
    /\ UNCHANGED otherVars

\* ------------------------------------------------------------ Celery workers

Running(o, d) ==
    /\ worker[o].pc # "idle"
    /\ worker[o].task.name = "process_document"
    /\ worker[o].task.document_id = d

\* the tasks waiting in broker q or running on a worker other than w
InFlight(q, w) ==
    BagCardinality(q) + Cardinality({o \in Workers \ {w} : worker[o].pc # "idle"})

\* process_document_task after process_document returned success=False: while
\* request.retries < max_retries the else branch calls self.retry, which sends
\* the retry message and raises Retry; Retry is an Exception, so the except
\* clause of the same try catches it and calls self.retry again, which sends a
\* second message with the same retries + 1.  Otherwise a "failed" result.
AfterFailure(q, t) ==
    IF t.retries < MaxRetries
    THEN Enqueue(Enqueue(q, ProcessTask(t.document_id, t.force, t.retries + 1)),
                 ProcessTask(t.document_id, t.force, t.retries + 1))
    ELSE q

\* process_document without the "COMPLETED and not force" return
StartProcessNoSkip(w, t) ==
    LET d == t.document_id IN
    /\ worker[w].pc = "idle"
    /\ BagIn(t, queue)
    /\ t.name = "process_document"
    /\ IF ~Exists(d)
       THEN /\ queue' = AfterFailure(Dequeue(queue, t), t)
            /\ InFlight(queue', w) <= MaxInFlight
            /\ worker' = [worker EXCEPT ![w].result =
                              ProcessingResult(FALSE, 0, FALSE)]
       ELSE /\ queue' = Dequeue(queue, t)
            /\ worker' = [worker EXCEPT ![w] =
                   [IdleWorker EXCEPT !.pc = "set_processing", !.task = t,
                                      !.loaded = documents[d].status]]
    /\ UNCHANGED <<faults, requests>>
    /\ UNCHANGED <<documents, chunks, vectors, collection, blobs, nextId, deleting,
                   cache, lastSearch, dvDone>>
    /\ UNCHANGED otherVars

\* A worker takes a process_document task and runs process_document up to the
\* status check: row missing -> "Document not found"; COMPLETED and not force
\* -> the "Document already processed" success; otherwise the pipeline starts.
StartProcess(w, t) ==
    LET d == t.document_id IN
    /\ worker[w].pc = "idle"
    /\ BagIn(t, queue)
    /\ t.name = "process_document"
    /\ IF ~Exists(d)
       THEN /\ queue' = AfterFailure(Dequeue(queue, t), t)
            /\ InFlight(queue', w) <= MaxInFlight
            /\ worker' = [worker EXCEPT ![w].result =
                              ProcessingResult(FALSE, 0, FALSE)]
       ELSE IF documents[d].status = "COMPLETED" /\ ~t.force
       THEN /\ queue' = Dequeue(queue, t)
            /\ worker' = [worker EXCEPT ![w].result =
                              ProcessingResult(TRUE, documents[d].chunk_count, TRUE)]
       ELSE /\ queue' = Dequeue(queue, t)
            /\ worker' = [worker EXCEPT ![w] =
                   [IdleWorker EXCEPT !.pc = "set_processing", !.task = t,
                                      !.loaded = documents[d].status]]
    /\ UNCHANGED <<faults, requests>>
    /\ UNCHANGED <<documents, chunks, vectors, collection, blobs, nextId, deleting,
                   cache, lastSearch, dvDone>>
    /\ UNCHANGED otherVars

\* _update_document_status(document, PROCESSING): the ORM writes the status
\* the worker loaded over whatever the row holds now; no UPDATE is emitted when
\* the loaded status already was PROCESSING; a vanished row makes the commit
\* raise (StaleDataError), which leads to the except branch.
SetProcessing(w) ==
    LET d == worker[w].task.document_id IN
    /\ worker[w].pc = "set_processing"
    /\ IF worker[w].loaded = "PROCESSING"
       THEN /\ worker' = [worker EXCEPT ![w].pc = "download"]
            /\ UNCHANGED documents
       ELSE IF Exists(d)
       THEN /\ documents' = [documents EXCEPT ![d].status = "PROCESSING"]
            /\ worker' = [worker EXCEPT ![w].pc = "download"]
       ELSE /\ worker' = [worker EXCEPT ![w].pc = "fail_write",
                                        ![w].error = "stale_row"]
            /\ UNCHANGED documents
    /\ UNCHANGED <<faults, requests>>
    /\ UNCHANGED <<chunks, vectors, collection, blobs, queue, nextId, deleting,
                   cache, lastSearch, dvDone>>
    /\ UNCHANGED otherVars

\* storage.download_file, parser.parse_bytes and chunker.chunk: a missing blob
\* or a storage error raises, an empty text raises ValueError, otherwise the
\* chunker returns n >= 1 chunks.
DownloadParseChunk(w, r, n) ==
    LET d == worker[w].task.document_id IN
    /\ worker[w].pc = "download"
    /\ r \in {"ok", "download_error", "empty_text"}
    /\ d \notin blobs => r = "download_error"
    /\ worker' = IF r = "ok"
                 THEN [worker EXCEPT ![w].pc = "del_select", ![w].n = n]
                 ELSE [worker EXCEPT ![w].pc = "fail_write", ![w].error = r]
    /\ Fault(r # "ok" /\ worker[w].task.document_id \in blobs)
    /\ UNCHANGED requests
    /\ UNCHANGED <<documents, chunks, vectors, collection, blobs, queue, nextId,
                   deleting, cache, lastSearch, dvDone>>
    /\ UNCHANGED otherVars

\* A worker takes a delete_document_vectors task: delete_document_vectors
\* runs _delete_existing_chunks.
StartDeleteVectors(w, t) ==
    /\ worker[w].pc = "idle"
    /\ BagIn(t, queue)
    /\ t.name = "delete_document_vectors"
    /\ queue' = Dequeue(queue, t)
    /\ worker' = [worker EXCEPT ![w] = [IdleWorker EXCEPT !.pc = "del_select",
                                                           !.task = t]]
    /\ UNCHANGED <<faults, requests>>
    /\ UNCHANGED <<documents, chunks, vectors, collection, blobs, nextId, deleting,
                   cache, lastSearch, dvDone>>
    /\ UNCHANGED otherVars

\* _delete_existing_chunks, the first select: the vector_id of every chunk
\* row of the document
DelSelect(w) ==
    LET d == worker[w].task.document_id IN
    /\ worker[w].pc = "del_select"
    /\ worker' = [worker EXCEPT
                    ![w].vector_ids = {c.vector_id : c \in ChunksOf(d)},
                    ![w].pc = IF ChunksOf(d) # {} THEN "del_vectors" ELSE "del_rows"]
    /\ UNCHANGED <<faults, requests>>
    /\ UNCHANGED <<documents, chunks, vectors, collection, blobs, queue, nextId,
                   deleting, cache, lastSearch, dvDone>>
    /\ UNCHANGED otherVars

\* _delete_existing_chunks, the try block: kb_id is read with scalar_one (it
\* raises when the document row is gone) and vector_store.delete_vectors is
\* called; any error is logged as a warning and the function goes on.
DelVectors(w, ok) ==
    LET d == worker[w].task.document_id IN
    /\ worker[w].pc = "del_vectors"
    /\ vectors' = IF Exists(d) /\ ok
                  THEN {v \in vectors : v.id \notin worker[w].vector_ids}
                  ELSE vectors
    /\ worker' = [worker EXCEPT ![w].pc = "del_rows", ![w].vector_ids = {}]
    /\ Fault(~ok /\ Exists(worker[w].task.document_id))
    /\ UNCHANGED requests
    /\ UNCHANGED <<documents, chunks, collection, blobs, queue, nextId, deleting,
                   cache, lastSearch, dvDone>>
    /\ UNCHANGED otherVars

\* _delete_existing_chunks, delete(Chunk) and commit.  In the delete-vectors
\* task this ends the task; in process_document the pipeline goes on.
DelRows(w) ==
    LET d == worker[w].task.document_id IN
    /\ worker[w].pc = "del_rows"
    /\ chunks' = chunks \ ChunksOf(d)
    /\ IF worker[w].task.name = "delete_document_vectors"
       THEN /\ worker' = [worker EXCEPT ![w] = IdleWorker]
            /\ dvDone' = dvDone \cup {d}
       ELSE /\ worker' = [worker EXCEPT ![w].pc = "coll_check"]
            /\ dvDone' = dvDone
    /\ UNCHANGED <<faults, requests>>
    /\ UNCHANGED <<documents, vectors, collection, blobs, queue, nextId, deleting,
                   cache, lastSearch>>
    /\ UNCHANGED otherVars

\* vector_store.collection_exists: False also when the backend call fails
CollCheck(w, backendError) ==
    /\ worker[w].pc = "coll_check"
    /\ LET seen == collection /\ ~backendError IN
       worker' = [worker EXCEPT
                     ![w].pc = IF seen THEN "embed_store" ELSE "coll_create"]
    /\ Fault(backendError)
    /\ UNCHANGED requests
    /\ UNCHANGED <<documents, chunks, vectors, collection, blobs, queue, nextId,
                   deleting, cache, lastSearch, dvDone>>
    /\ UNCHANGED otherVars

\* vector_store.create_collection: logs and re-raises what the client raises,
\* which it does for a collection that exists
CollCreate(w) ==
    /\ worker[w].pc = "coll_create"
    /\ IF collection
       THEN /\ worker' = [worker EXCEPT ![w].pc = "fail_write",
                                        ![w].error = "create_collection"]
            /\ UNCHANGED collection
       ELSE /\ worker' = [worker EXCEPT ![w].pc = "embed_store"]
            /\ collection' = TRUE
    /\ UNCHANGED <<faults, requests>>
    /\ UNCHANGED <<documents, chunks, vectors, blobs, queue, nextId, deleting,
                   cache, lastSearch, dvDone>>
    /\ UNCHANGED otherVars

\* _embed_and_store_chunks from embed_texts on: the embedding call, one uuid4
\* per (chunk, vector) pair of zip(chunks, vectors) as vector_id, and
\* insert_vectors (an upsert of all points; nothing is sent for an empty
\* list).  With short_answer the embedding call returns fewer vectors than
\* texts.
EmbedStore(w, r) ==
    LET d == worker[w].task.document_id
        n == worker[w].n
        Records(m) == {[vector_id |-> nextId + k, chunk_index |-> k] : k \in 0 .. m - 1}
        Stored(m) ==
            /\ nextId + m - 1 <= MaxIds
            /\ vectors' = vectors \cup
                  {[id |-> c.vector_id, document_id |-> d] : c \in Records(m)}
            /\ nextId' = nextId + m
            /\ worker' = [worker EXCEPT ![w].pc = "save_commit",
                                        ![w].chunk_records = Records(m)]
    IN
    /\ worker[w].pc = "embed_store"
    /\ r \in {"ok", "short_answer", "embed_error", "upsert_error"}
    /\ CASE r = "ok" -> Stored(n)
         [] r = "short_answer" -> \E m \in 0 .. n - 1 : Stored(m)
         [] OTHER -> /\ worker' = [worker EXCEPT ![w].pc = "fail_write",
                                                 ![w].error = r]
                     /\ UNCHANGED <<vectors, nextId>>
    /\ Fault(r # "ok")
    /\ UNCHANGED requests
    /\ UNCHANGED <<documents, chunks, collection, blobs, queue, deleting, cache,
                   lastSearch, dvDone>>
    /\ UNCHANGED otherVars

\* Chunk.id: _save_chunks_to_db does not pass an id, so the column default
\* uuid4 mints one for the row; it is a fresh value, unequal to every vector id
\* and to the id of every other row (written as the ids beyond MaxIds, one for
\* the row of each vector id)
ChunkRowId(vector_id) == MaxIds + vector_id

\* history: another execution on the same document committed COMPLETED while
\* worker o was inside process_document
NotePeers(wk, w, d) ==
    [o \in Workers |->
        IF o # w /\ Running(o, d) THEN [wk[o] EXCEPT !.peer_completed = TRUE]
        ELSE wk[o]]

\* _save_chunks_to_db (add every Chunk, flush) and step 9 (status COMPLETED,
\* chunk_count, processed_at, commit).  A flush that raises - the database
\* rejects a row, or the document row is gone (foreign key) - leaves the
\* session rolled back and unusable until rollback() is called.
SaveCommit(w, flushError) ==
    LET d == worker[w].task.document_id
        rows == {[id |-> ChunkRowId(c.vector_id), document_id |-> d,
                  vector_id |-> c.vector_id, chunk_index |-> c.chunk_index] :
                    c \in worker[w].chunk_records}
    IN
    /\ worker[w].pc = "save_commit"
    /\ IF flushError \/ ~Exists(d)
       THEN /\ worker' = [worker EXCEPT ![w].pc = "fail_write",
                             ![w].error = "save_chunks", ![w].poisoned = TRUE,
                             ![w].chunk_records = {}]
            /\ UNCHANGED <<documents, chunks, cache>>
       ELSE /\ chunks' = chunks \cup rows
            /\ documents' = [documents EXCEPT ![d].status = "COMPLETED",
                                              ![d].chunk_count = Cardinality(rows)]
            /\ cache' = NoteEvent(cache)
            /\ worker' = NotePeers(
                   [worker EXCEPT ![w] =
                       [IdleWorker EXCEPT !.result =
                           ProcessingResult(TRUE, Cardinality(rows), FALSE)]], w, d)
    /\ Fault(flushError)
    /\ UNCHANGED requests
    /\ UNCHANGED <<vectors, collection, blobs, queue, nextId, deleting, lastSearch,
                   dvDone>>
    /\ UNCHANGED otherVars

\* The except branch of process_document: UPDATE documents SET status=FAILED
\* and commit, inside try/except-pass (on a session left unusable by a failed
\* flush the UPDATE raises and nothing is written); the result has
\* success=False, so process_document_task retries or gives up.
FailWrite(w) ==
    LET d == worker[w].task.document_id
        written == ~worker[w].poisoned /\ Exists(d)
    IN
    /\ worker[w].pc = "fail_write"
    /\ documents' = IF written THEN [documents EXCEPT ![d].status = "FAILED"]
                    ELSE documents
    /\ cache' = IF written THEN NoteEvent(cache) ELSE cache
    /\ queue' = AfterFailure(queue, worker[w].task)
    /\ InFlight(queue', w) <= MaxInFlight
    /\ worker' = [worker EXCEPT ![w] =
                     [IdleWorker EXCEPT !.result = ProcessingResult(FALSE, 0, FALSE)]]
    /\ UNCHANGED <<faults, requests>>
    /\ UNCHANGED <<chunks, vectors, collection, blobs, nextId, deleting, lastSearch,
                   dvDone>>
    /\ UNCHANGED otherVars

\* The worker process is lost in the middle of a task: with task_acks_late and
\* task_reject_on_worker_lost the message goes back to the queue.
WorkerLost(w) ==
    /\ worker[w].pc # "idle"
    /\ queue' = Enqueue(queue, worker[w].task)
    /\ worker' = [worker EXCEPT ![w] = IdleWorker]
    /\ Fault(TRUE)
    /\ UNCHANGED requests
    /\ UNCHANGED <<documents, chunks, vectors, collection, blobs, nextId, deleting,
                   cache, lastSearch, dvDone>>
    /\ UNCHANGED otherVars

\* ------------------------------------------------------------ specification

Tasks ==
    {ProcessTask(d, f, r) : d \in Docs, f \in BOOLEAN, r \in 0 .. MaxRetries}
        \cup {DeleteVectorsTask(d) : d \in Docs}

ApiStep ==
    \/ \E d \in Docs, sent \in BOOLEAN : Upload(d, sent)
    \/ \E d \in Docs, sent \in BOOLEAN : Reprocess(d, sent)
    \/ ProcessPending
    \/ \E d \in Docs, blobDeleted \in BOOLEAN, sent \in BOOLEAN :
          DeleteStart(d, blobDeleted, sent)
    \/ \E d \in Docs : DeleteCommit(d)

WorkerStep(w) ==
    \/ \E t \in Tasks : StartProcess(w, t)
    \/ \E t \in Tasks : StartDeleteVectors(w, t)
    \/ SetProcessing(w)
    \/ \E r \in {"ok", "download_error", "empty_text"}, n \in 1 .. MaxChunks :
          DownloadParseChunk(w, r, n)
    \/ DelSelect(w)
    \/ \E ok \in BOOLEAN : DelVectors(w, ok)
    \/ DelRows(w)
    \/ \E backendError \in BOOLEAN : CollCheck(w, backendError)
    \/ CollCreate(w)
    \/ \E r \in {"ok", "short_answer", "embed_error", "upsert_error"} :
          EmbedStore(w, r)
    \/ \E flushError \in BOOLEAN : SaveCommit(w, flushError)
    \/ FailWrite(w)
    \/ WorkerLost(w)

Next ==
    \/ ApiStep
    \/ \E w \in Workers : WorkerStep(w)

Spec == Init /\ [][Next]_vars

\* ------------------------------------------------------------ search and cache

Modes == {"semantic", "keyword", "hybrid"}

\* SemanticSearch.search reads the points of the collection; it raises when
\* the collection does not exist
SemanticHits == {v.document_id : v \in vectors}

\* KeywordSearch.search reads the chunk rows joined with their documents
KeywordHits == {c.document_id : c \in chunks}

\* the chunk_id SemanticSearch.search reports for a point: the point's id
SemanticChunkId(v) == v.id

\* the chunk_id KeywordSearch.search reports for a chunk row: c.id::text
KeywordChunkId(c) == c.id

\* RetrievalPipeline.search: the documents of the chunks a request returns;
\* hybrid carries on with the keyword results when the semantic search raises
Retrieve(mode) ==
    CASE mode = "semantic" -> SemanticHits
      [] mode = "keyword" -> KeywordHits
      [] OTHER -> IF collection THEN SemanticHits \cup KeywordHits ELSE KeywordHits

\* POST /search: cache.get when use_cache; on a miss pipeline.search and
\* cache.set.  The cache key is built from the query, the knowledge base, the
\* SearchConfig and the filters.
Search(mode, use_cache) ==
    /\ mode = "semantic" => collection
    /\ IF use_cache /\ cache.present
       THEN /\ lastSearch' = [done |-> TRUE, from_cache |-> TRUE,
                              stale |-> cache.stale, results |-> cache.results]
            /\ UNCHANGED cache
       ELSE /\ lastSearch' = [done |-> TRUE, from_cache |-> FALSE,
                              stale |-> FALSE, results |-> Retrieve(mode)]
            /\ cache' = IF use_cache
                        THEN [present |-> TRUE, results |-> Retrieve(mode),
                              stale |-> FALSE]
                        ELSE cache
    /\ UNCHANGED <<documents, chunks, vectors, collection, blobs, queue, worker,
                   nextId, deleting, dvDone, faults, requests>>
    /\ UNCHANGED otherVars

\* DELETE /search/cache/{kb}: SearchCache.invalidate_knowledge_base
ClearCache ==
    /\ cache.present
    /\ cache' = NoEntry
    /\ UNCHANGED <<documents, chunks, vectors, collection, blobs, queue, worker,
                   nextId, deleting, lastSearch, dvDone, faults, requests>>
    /\ UNCHANGED otherVars

\* the entry was stored with setex: it goes when its ttl has passed
ExpireEntry ==
    /\ cache.present
    /\ cache' = NoEntry
    /\ UNCHANGED <<documents, chunks, vectors, collection, blobs, queue, worker,
                   nextId, deleting, lastSearch, dvDone, faults, requests>>
    /\ UNCHANGED otherVars

SearchStep ==
    \/ \E mode \in Modes, use_cache \in BOOLEAN : Search(mode, use_cache)
    \/ ClearCache
    \/ ExpireEntry

\* The pipeline with one worker, and the search endpoint beside it.
SearchWorkers == {"w1"}

NextSearch ==
    \/ ApiStep
    \/ \E w \in SearchWorkers : WorkerStep(w)
    \/ SearchStep

SpecSearch == Init /\ [][NextSearch]_vars

\* ------------------------------------------------------------ retrieval
\* HybridRetriever.search and RetrievalPipeline.search as functions of what the
\* sub-searches and the reranker hand back.  Scores are exact fractions, kept
\* as integers in units of 1 / ScoreUnit.

ScoreUnit == (RrfK + 1) * (RrfK + 2) * (RrfK + 3) * (RrfK + 4)

\* score 1.0 / (k + rank) of _rrf_fusion
RrfScore(rank) == ScoreUnit \div (RrfK + rank)

\* the score a sub-search gives its hit at a rank: 1, 1/2, 1/3, ...
RetrieverScore(rank) == ScoreUnit \div rank

Take(seq, n) == SubSeq(seq, 1, IF n < Len(seq) THEN n ELSE Len(seq))

AboveThreshold(seq, threshold) ==
    LET Keep(r) == r.score >= threshold IN SelectSeq(seq, Keep)

\* the lists of hits a sub-search can hand back: distinct chunks, best first
HitLists ==
    LET idLists == {ids \in UNION {[1 .. n -> ChunkIds] : n \in 0 .. MaxHits} :
                       \A i, j \in DOMAIN ids : i # j => ids[i] # ids[j]}
    IN  {[i \in DOMAIN ids |-> [chunk_id |-> ids[i], score |-> RetrieverScore(i)]] :
            ids \in idLists}

Outcomes == {Outcome(FALSE, hits) : hits \in HitLists} \cup {Outcome(TRUE, <<>>)}

\* list.sort(key=score, reverse=True) with equal scores coming out in
\* reverse order
SortByScoreUnstable(seq) ==
    LET n == Len(seq)
        Before(i, j) == \/ seq[i].score > seq[j].score
                        \/ seq[i].score = seq[j].score /\ i > j
        Place(i) == 1 + Cardinality({j \in 1 .. n : Before(j, i)})
    IN  [k \in 1 .. n |-> seq[CHOOSE i \in 1 .. n : Place(i) = k]]

\* list.sort(key=score, reverse=True): stable, descending
RECURSIVE SortByScore(_)
SortByScore(seq) ==
    IF seq = <<>> THEN <<>>
    ELSE LET x == seq[1]
             rest == SortByScore(Tail(seq))
             before == {i \in DOMAIN rest : rest[i].score > x.score}
             at == Cardinality(before)
         IN  SubSeq(rest, 1, at) \o <<x>> \o SubSeq(rest, at + 1, Len(rest))

\* the rank of chunk c in a result list, 0 when it is not in the list
RankIn(seq, c) ==
    IF \E i \in DOMAIN seq : seq[i].chunk_id = c
    THEN CHOOSE i \in DOMAIN seq : seq[i].chunk_id = c
    ELSE 0

\* _rrf_fusion without its final sort: the chunks in the order first seen
RrfFusionUnsorted(semantic_results, keyword_results) ==
    LET IsNew(r) == RankIn(semantic_results, r.chunk_id) = 0
        seen == semantic_results \o SelectSeq(keyword_results, IsNew)
        Part(seq, c) == IF RankIn(seq, c) = 0 THEN 0 ELSE RrfScore(RankIn(seq, c))
    IN  [i \in DOMAIN seen |->
            [chunk_id |-> seen[i].chunk_id,
             score |-> Part(semantic_results, seen[i].chunk_id)
                         + Part(keyword_results, seen[i].chunk_id)]]

\* _rrf_fusion keeping, for a chunk of both lists, only the larger contribution
RrfFusionMax(semantic_results, keyword_results) ==
    LET IsNew(r) == RankIn(semantic_results, r.chunk_id) = 0
        seen == semantic_results \o SelectSeq(keyword_results, IsNew)
        Part(seq, c) == IF RankIn(seq, c) = 0 THEN 0 ELSE RrfScore(RankIn(seq, c))
        Larger(a, b) == IF a >= b THEN a ELSE b
    IN  SortByScore([i \in DOMAIN seen |->
            [chunk_id |-> seen[i].chunk_id,
             score |-> Larger(Part(semantic_results, seen[i].chunk_id),
                              Part(keyword_results, seen[i].chunk_id))]])

\* HybridRetriever._rrf_fusion: each chunk scores the sum of 1 / (k + rank)
\* over the lists that hold it; the dict keeps the chunks in the order first
\* seen (semantic list, then keyword list); then the sort
RrfFusion(semantic_results, keyword_results) ==
    LET IsNew(r) == RankIn(semantic_results, r.chunk_id) = 0
        seen == semantic_results \o SelectSeq(keyword_results, IsNew)
        Part(seq, c) == IF RankIn(seq, c) = 0 THEN 0 ELSE RrfScore(RankIn(seq, c))
    IN  SortByScore([i \in DOMAIN seen |->
            [chunk_id |-> seen[i].chunk_id,
             score |-> Part(semantic_results, seen[i].chunk_id)
                         + Part(keyword_results, seen[i].chunk_id)]])

\* HybridConfig.semantic_weight 0.7 and keyword_weight 0.3, in tenths
SemanticWeight == 7
KeywordWeight == 3

\* normalised scores are kept in units of 1 / NormUnit
NormUnit == 3 * 4 * 7

Min(S) == CHOOSE x \in S : \A y \in S : x <= y
Max(S) == CHOOSE x \in S : \A y \in S : x >= y

\* HybridRetriever._normalize_scores: min-max, all 1.0 when every score is the
\* same
NormalizeScores(results) ==
    IF results = <<>> THEN <<>>
    ELSE LET scores == {results[i].score : i \in DOMAIN results}
             min_score == Min(scores)
             max_score == Max(scores)
         IN  IF max_score = min_score THEN [i \in DOMAIN results |-> NormUnit]
             ELSE [i \in DOMAIN results |->
                      ((results[i].score - min_score) * NormUnit)
                          \div (max_score - min_score)]

\* the chunks of both lists in the order first seen: the keys of the score dict
FirstSeen(semantic_results, keyword_results) ==
    LET IsNew(r) == RankIn(semantic_results, r.chunk_id) = 0
    IN  semantic_results \o SelectSeq(keyword_results, IsNew)

\* HybridRetriever._weighted_fusion: normalised score times weight, summed
\* over the lists that hold the chunk; then the sort
WeightedFusion(semantic_results, keyword_results) ==
    LET seen == FirstSeen(semantic_results, keyword_results)
        semantic_normalized == NormalizeScores(semantic_results)
        keyword_normalized == NormalizeScores(keyword_results)
        Part(seq, norm, c, weight) ==
            IF RankIn(seq, c) = 0 THEN 0 ELSE norm[RankIn(seq, c)] * weight
    IN  SortByScore([i \in DOMAIN seen |->
            [chunk_id |-> seen[i].chunk_id,
             score |-> Part(semantic_results, semantic_normalized,
                            seen[i].chunk_id, SemanticWeight)
                         + Part(keyword_results, keyword_normalized,
                                seen[i].chunk_id, KeywordWeight)]])

\* HybridRetriever._linear_fusion: raw score times weight, summed over the
\* lists that hold the chunk; then the sort
LinearFusion(semantic_results, keyword_results) ==
    LET seen == FirstSeen(semantic_results, keyword_results)
        Part(seq, c, weight) ==
            IF RankIn(seq, c) = 0 THEN 0 ELSE seq[RankIn(seq, c)].score * weight
    IN  SortByScore([i \in DOMAIN seen |->
            [chunk_id |-> seen[i].chunk_id,
             score |-> Part(semantic_results, seen[i].chunk_id, SemanticWeight)
                         + Part(keyword_results, seen[i].chunk_id, KeywordWeight)]])

\* HybridRetriever._fuse_results
FuseResults(strategy, semantic_results, keyword_results) ==
    CASE strategy = "rrf" -> RrfFusion(semantic_results, keyword_results)
      [] strategy = "weighted" -> WeightedFusion(semantic_results, keyword_results)
      [] OTHER -> LinearFusion(semantic_results, keyword_results)

\* HybridRetriever.search with a plain gather: the first exception propagates
HybridSearchFailFast(semantic, keyword, top_k, score_threshold) ==
    IF semantic.raised \/ keyword.raised THEN Outcome(TRUE, <<>>)
    ELSE Outcome(FALSE,
             Take(AboveThreshold(RrfFusion(semantic.hits, keyword.hits),
                                 score_threshold), top_k))

\* HybridRetriever.search: gather(return_exceptions=True); a sub-search that
\* raised counts as an empty list; fuse, apply the threshold, cut to top_k
HybridSearch(semantic, keyword, top_k, score_threshold) ==
    LET semantic_results == IF semantic.raised THEN <<>> ELSE semantic.hits
        keyword_results == IF keyword.raised THEN <<>> ELSE keyword.hits
        fused_results == RrfFusion(semantic_results, keyword_results)
    IN  Outcome(FALSE, Take(AboveThreshold(fused_results, score_threshold), top_k))

\* SemanticSearch.search / PostgresKeywordSearch.search under the pipeline:
\* the backend returns at most top_k hits; an error is re-raised
SingleSearch(outcome, top_k) ==
    IF outcome.raised THEN outcome ELSE Outcome(FALSE, Take(outcome.hits, top_k))

\* BaseReranker.rerank: every candidate gets the reranker's relevance score,
\* the best config.top_k are taken and those under the threshold dropped
Rerank(results, relevance, top_k, score_threshold) ==
    LET scored == [i \in DOMAIN results |->
                      [chunk_id |-> results[i].chunk_id,
                       score |-> relevance[results[i].chunk_id]]]
    IN  AboveThreshold(Take(SortByScore(scored), top_k), score_threshold)

\* RetrievalPipeline.search
PipelineSearch(c) ==
    LET initial_top_k == IF c.rerank THEN c.top_k * 3 ELSE c.top_k
        results ==
            CASE c.mode = "semantic" -> SingleSearch(c.semantic, initial_top_k)
              [] c.mode = "keyword" -> SingleSearch(c.keyword, initial_top_k)
              [] OTHER -> HybridSearch(c.semantic, c.keyword, initial_top_k, 0)
    IN  IF results.raised THEN results
        ELSE IF c.rerank /\ results.hits # <<>>
        THEN Outcome(FALSE,
                 Rerank(results.hits, c.relevance,
                        IF c.rerank_top_k # 0 THEN c.rerank_top_k ELSE c.top_k,
                        c.score_threshold))
        ELSE Outcome(FALSE,
                 Take(AboveThreshold(results.hits, c.score_threshold), c.top_k))

\* the score thresholds of a request: 0, 0.02 and 0.75
Thresholds == {0, ScoreUnit \div 50, (3 * ScoreUnit) \div 4}

\* the relevance scores a reranker can give: 0.1 or 1.0 for each chunk
Relevances == [ChunkIds -> {ScoreUnit \div 10, ScoreUnit}]

\* a caller hands HybridRetriever.search a config; the sub-searches answer
CallHybrid(semantic, keyword, top_k, score_threshold) ==
    /\ retrieval.phase = "idle"
    /\ retrieval' = [NoCall EXCEPT !.phase = "called", !.kind = "hybrid",
                         !.mode = "hybrid", !.semantic = semantic,
                         !.keyword = keyword, !.top_k = top_k,
                         !.score_threshold = score_threshold]
    /\ UNCHANGED notRetrieval

RunHybrid ==
    /\ retrieval.phase = "called"
    /\ retrieval.kind = "hybrid"
    /\ retrieval' = [retrieval EXCEPT !.phase = "done",
                         !.response = HybridSearch(retrieval.semantic,
                             retrieval.keyword, retrieval.top_k,
                             retrieval.score_threshold)]
    /\ UNCHANGED notRetrieval

\* POST /search hands RetrievalPipeline.search the request's mode, top_k,
\* score_threshold, rerank.enabled and rerank.top_k (0 stands for None)
CallPipeline(mode, semantic, keyword, top_k, score_threshold, rerank, rerank_top_k, relevance) ==
    /\ retrieval.phase = "idle"
    /\ ~rerank => rerank_top_k = 0 /\ relevance = NoCall.relevance
    /\ retrieval' = [NoCall EXCEPT !.phase = "called", !.kind = "pipeline",
                         !.mode = mode, !.semantic = semantic,
                         !.keyword = keyword, !.top_k = top_k,
                         !.score_threshold = score_threshold,
                         !.rerank = rerank, !.rerank_top_k = rerank_top_k,
                         !.relevance = relevance]
    /\ UNCHANGED notRetrieval

RunPipeline ==
    /\ retrieval.phase = "called"
    /\ retrieval.kind = "pipeline"
    /\ retrieval' = [retrieval EXCEPT !.phase = "done",
                         !.response = PipelineSearch(retrieval)]
    /\ UNCHANGED notRetrieval

\* the call is over; the next one starts from scratch
ReturnCall ==
    /\ retrieval.phase = "done"
    /\ retrieval' = NoCall
    /\ UNCHANGED notRetrieval

\* a new call, when none is under way
CallStep ==
    /\ retrieval.phase = "idle"
    /\ \/ \E semantic \in Outcomes, keyword \in Outcomes,
             top_k \in 1 .. MaxTopK + 1, score_threshold \in Thresholds :
             CallHybrid(semantic, keyword, top_k, score_threshold)
       \/ \E mode \in Modes, semantic \in Outcomes, keyword \in Outcomes,
             top_k \in 1 .. MaxTopK, score_threshold \in Thresholds,
             rerank \in BOOLEAN, rerank_top_k \in 0 .. MaxRerankTopK,
             relevance \in Relevances \cup {NoCall.relevance} :
             CallPipeline(mode, semantic, keyword, top_k, score_threshold, rerank,
                          rerank_top_k, relevance)

NextRetrieval ==
    \/ CallStep
    \/ RunHybrid
    \/ RunPipeline
    \/ ReturnCall

SpecRetrieval == Init /\ [][NextRetrieval]_vars

\* ------------------------------------------------------------ write requests
\* upload_documents and push_document, step by step.  A file is its position
\* in the request.

FileLists == UNION {[1 .. n -> BOOLEAN] : n \in 1 .. MaxFiles}

\* POST /knowledge-bases/{kb}/documents with the files of the request
CallUpload(files) ==
    /\ upload.phase = "idle"
    /\ upload' = [NoUpload EXCEPT !.phase = "files", !.endpoint = "upload",
                                  !.files = files]
    /\ UNCHANGED notUpload

\* one turn of the loop over the files: ParserFactory.is_supported, then
\* storage.upload_bytes and db.add; an exception puts the file in failed
UploadFile(storageOk) ==
    LET i == upload.i IN
    /\ upload.phase = "files"
    /\ upload.endpoint = "upload"
    /\ i <= Len(upload.files)
    /\ ~upload.files[i] => storageOk
    /\ upload' =
          IF ~upload.files[i]
          THEN [upload EXCEPT !.failed = @ \cup {i}, !.i = i + 1]
          ELSE IF storageOk
          THEN [upload EXCEPT !.stored = @ \cup {i}, !.added = @ \cup {i},
                              !.i = i + 1]
          ELSE [upload EXCEPT !.failed = @ \cup {i}, !.i = i + 1]
    /\ UNCHANGED notUpload

\* db.commit() after the loop
UploadCommit ==
    /\ upload.phase = "files"
    /\ upload.endpoint = "upload"
    /\ upload.i > Len(upload.files)
    /\ upload' = [upload EXCEPT !.rows = upload.added, !.phase = "send", !.i = 1]
    /\ UNCHANGED notUpload

\* send_task_async for the next uploaded document; a refused message is
\* logged and None returned
UploadSend(sent) ==
    LET i == upload.i IN
    /\ upload.phase = "send"
    /\ upload.endpoint = "upload"
    /\ i <= Len(upload.files)
    /\ i \notin upload.rows => sent
    /\ upload' = [upload EXCEPT
                      !.sent = IF i \in upload.rows /\ sent THEN @ \cup {i} ELSE @,
                      !.i = i + 1,
                      !.phase = IF i = Len(upload.files) THEN "done" ELSE "send"]
    /\ UNCHANGED notUpload

\* POST /knowledge-bases/{kb}/documents/push with one DocumentCreate
CallPush(supported) ==
    /\ upload.phase = "idle"
    /\ upload' = [NoUpload EXCEPT !.phase = "store", !.endpoint = "push",
                                  !.files = <<supported>>]
    /\ UNCHANGED notUpload

\* push_document: storage.upload_bytes; an exception ends the request
PushStore(storageOk) ==
    /\ upload.phase = "store"
    /\ upload' = IF storageOk
                  THEN [upload EXCEPT !.stored = {1}, !.added = {1},
                                      !.phase = "commit"]
                  ELSE [upload EXCEPT !.raised = TRUE, !.phase = "done"]
    /\ UNCHANGED notUpload

\* push_document: db.add(document), db.commit()
PushCommit ==
    /\ upload.phase = "commit"
    /\ upload' = [upload EXCEPT !.rows = upload.added, !.phase = "send"]
    /\ UNCHANGED notUpload

\* push_document: send_task_async, then the response
PushSend(sent) ==
    /\ upload.phase = "send"
    /\ upload.endpoint = "push"
    /\ upload' = [upload EXCEPT !.sent = IF sent THEN {1} ELSE {},
                                 !.phase = "done"]
    /\ UNCHANGED notUpload

\* the response has gone out
ReturnUpload ==
    /\ upload.phase = "done"
    /\ upload' = NoUpload
    /\ UNCHANGED notUpload

NextUpload ==
    \/ \E files \in FileLists : CallUpload(files)
    \/ \E storageOk \in BOOLEAN : UploadFile(storageOk)
    \/ UploadCommit
    \/ \E sent \in BOOLEAN : UploadSend(sent)
    \/ \E supported \in BOOLEAN : CallPush(supported)
    \/ \E storageOk \in BOOLEAN : PushStore(storageOk)
    \/ PushCommit
    \/ \E sent \in BOOLEAN : PushSend(sent)
    \/ ReturnUpload

SpecUpload == Init /\ [][NextUpload]_vars

\* ------------------------------------------------------------ search cache
\* SearchCache (Redis) and the way POST /search uses it: get, on a miss the
\* pipeline, then set.  One request at a time.

\* a SearchResult as the retrievers build it
FullResult(c) ==
    [chunk_id |-> c, document_id |-> "d1", content |-> <<"text", c>>,
     score |-> ScoreUnit \div 2, metadata |-> [page |-> 1],
     chunk_index |-> 1, document_filename |-> "a.txt"]

\* the result lists the pipeline can hand back
ResultLists ==
    {[i \in DOMAIN ids |-> FullResult(ids[i])] :
        ids \in {<<>>, <<"c1">>, <<"c1", "c2">>, <<"c2", "c1">>,
                 <<"c1", "c2", "c3">>}}

\* set(): the JSON list, five fields per result
Serialize(results) ==
    [i \in DOMAIN results |->
        [chunk_id |-> results[i].chunk_id, document_id |-> results[i].document_id,
         content |-> results[i].content, score |-> results[i].score,
         metadata |-> results[i].metadata]]

\* get(): SearchResult(...) from each item; the other fields take defaults
Deserialize(data) ==
    [i \in DOMAIN data |->
        [chunk_id |-> data[i].chunk_id, document_id |-> data[i].document_id,
         content |-> data[i].content, score |-> data[i].score,
         metadata |-> data[i].metadata,
         chunk_index |-> 0, document_filename |-> ""]]

CallKey == CacheKey(cacheCall.query, cacheCall.kb, cacheCall.config)

\* POST /search arrives; results is what pipeline.search returns if it runs
SearchCall(kb, query, config, results, use_cache, cache_empty) ==
    /\ cacheCall.phase = "idle"
    /\ cacheCall' = [NoCacheCall EXCEPT !.phase = "get", !.op = "search",
                         !.kb = kb, !.query = query, !.config = config,
                         !.results = results, !.use_cache = use_cache,
                         !.cache_empty = cache_empty]
    /\ UNCHANGED store
    /\ UNCHANGED notCache

\* get() that lets a backend error through to the caller
CacheGetRaises(backendError) ==
    /\ cacheCall.phase = "get"
    /\ backendError => cacheCall.use_cache
    /\ cacheCall' =
          IF backendError
          THEN [cacheCall EXCEPT !.phase = "done", !.raised = TRUE,
                                 !.get_error = TRUE]
          ELSE IF cacheCall.use_cache /\ store[CallKey].present
          THEN [cacheCall EXCEPT !.phase = "done", !.from_cache = TRUE,
                   !.response = Deserialize(store[CallKey].data),
                   !.origin = store[CallKey].origin]
          ELSE [cacheCall EXCEPT !.response = cacheCall.results,
                   !.phase = IF cacheCall.use_cache THEN "set" ELSE "done"]
    /\ UNCHANGED store
    /\ UNCHANGED notCache

\* the endpoint testing the cached list for truth instead of for None
CacheGetTruthy(backendError) ==
    LET hit == /\ cacheCall.use_cache
               /\ ~backendError
               /\ store[CallKey].present
               /\ store[CallKey].data # <<>>
    IN
    /\ cacheCall.phase = "get"
    /\ backendError => cacheCall.use_cache
    /\ cacheCall' =
          IF hit
          THEN [cacheCall EXCEPT !.phase = "done", !.from_cache = TRUE,
                   !.response = Deserialize(store[CallKey].data),
                   !.origin = store[CallKey].origin]
          ELSE [cacheCall EXCEPT !.get_error = backendError,
                   !.response = cacheCall.results,
                   !.phase = IF cacheCall.use_cache THEN "set" ELSE "done"]
    /\ UNCHANGED store
    /\ UNCHANGED notCache

\* search: cache.get when use_cache (an exception inside get is printed and
\* None returned); "cached is not None" is a hit, anything else runs the
\* pipeline
CacheGet(backendError) ==
    LET hit == /\ cacheCall.use_cache
               /\ ~backendError
               /\ store[CallKey].present
    IN
    /\ cacheCall.phase = "get"
    /\ backendError => cacheCall.use_cache
    /\ cacheCall' =
          IF hit
          THEN [cacheCall EXCEPT !.phase = "done", !.from_cache = TRUE,
                   !.response = Deserialize(store[CallKey].data),
                   !.origin = store[CallKey].origin]
          ELSE [cacheCall EXCEPT !.get_error = backendError,
                   !.response = cacheCall.results,
                   !.phase = IF cacheCall.use_cache THEN "set" ELSE "done"]
    /\ UNCHANGED store
    /\ UNCHANGED notCache

\* set() without the max_results cut
CacheSetNoLimit(backendError) ==
    LET skipped == cacheCall.results = <<>> /\ ~cacheCall.cache_empty IN
    /\ cacheCall.phase = "set"
    /\ skipped => ~backendError
    /\ store' = IF skipped \/ backendError THEN store
                 ELSE [store EXCEPT ![CallKey] =
                          [present |-> TRUE, data |-> Serialize(cacheCall.results),
                           origin |-> cacheCall.results]]
    /\ cacheCall' = [cacheCall EXCEPT !.phase = "done",
                                      !.set_error = backendError]
    /\ UNCHANGED notCache

\* search: cache.set after the pipeline; set() skips an empty list unless
\* cache_empty, keeps results[:max_results], writes them with setex, and
\* turns an exception into False
CacheSet(backendError) ==
    LET skipped == cacheCall.results = <<>> /\ ~cacheCall.cache_empty IN
    /\ cacheCall.phase = "set"
    /\ skipped => ~backendError
    /\ store' = IF skipped \/ backendError THEN store
                 ELSE [store EXCEPT ![CallKey] =
                          [present |-> TRUE,
                           data |-> Serialize(Take(cacheCall.results, CacheMaxResults)),
                           origin |-> cacheCall.results]]
    /\ cacheCall' = [cacheCall EXCEPT !.phase = "done",
                                      !.set_error = backendError]
    /\ UNCHANGED notCache

\* the keys of Redis that match "{prefix}:{kb}:*"
MatchingKeys(kb) == {key \in CacheKeys : key.kb = kb /\ store[key].present}

\* DELETE /search/cache/{kb}: invalidate_knowledge_base starts its scan
InvalidateCall(kb) ==
    /\ cacheCall.phase = "idle"
    /\ cacheCall' = [NoCacheCall EXCEPT !.phase = "scan", !.op = "invalidate",
                                        !.kb = kb, !.before = store]
    /\ UNCHANGED store
    /\ UNCHANGED notCache

\* an invalidation whose pattern is "{prefix}:*"
InvalidateStepAll(backendError) ==
    LET keys == {key \in CacheKeys : store[key].present} IN
    /\ cacheCall.phase = "scan"
    /\ IF backendError
       THEN /\ cacheCall' = [cacheCall EXCEPT !.phase = "done", !.deleted = 0,
                                              !.failed = TRUE]
            /\ UNCHANGED store
       ELSE IF keys = {}
       THEN /\ cacheCall' = [cacheCall EXCEPT !.phase = "done"]
            /\ UNCHANGED store
       ELSE \E key \in keys :
               /\ store' = [store EXCEPT ![key] = NoCacheEntry]
               /\ cacheCall' = [cacheCall EXCEPT !.deleted = @ + 1]
    /\ UNCHANGED notCache

\* invalidate_knowledge_base: scan_iter hands over the next matching key and
\* it is deleted; at the end the count is returned; an exception ends the
\* call with 0
InvalidateStep(backendError) ==
    /\ cacheCall.phase = "scan"
    /\ IF backendError
       THEN /\ cacheCall' = [cacheCall EXCEPT !.phase = "done", !.deleted = 0,
                                              !.failed = TRUE]
            /\ UNCHANGED store
       ELSE IF MatchingKeys(cacheCall.kb) = {}
       THEN /\ cacheCall' = [cacheCall EXCEPT !.phase = "done"]
            /\ UNCHANGED store
       ELSE \E key \in MatchingKeys(cacheCall.kb) :
               /\ store' = [store EXCEPT ![key] = NoCacheEntry]
               /\ cacheCall' = [cacheCall EXCEPT !.deleted = @ + 1]
    /\ UNCHANGED notCache

\* the ttl of an entry has passed
ExpireKey(key) ==
    /\ cacheCall.phase = "idle"
    /\ store[key].present
    /\ store' = [store EXCEPT ![key] = NoCacheEntry]
    /\ UNCHANGED cacheCall
    /\ UNCHANGED notCache

\* the response has gone out
ReturnCache ==
    /\ cacheCall.phase = "done"
    /\ cacheCall' = NoCacheCall
    /\ UNCHANGED store
    /\ UNCHANGED notCache

\* a new request, when none is under way
CacheCallStep ==
    /\ cacheCall.phase = "idle"
    /\ \/ \E kb \in KBs, query \in RawQueries, config \in Configs,
             results \in ResultLists, use_cache \in BOOLEAN,
             cache_empty \in BOOLEAN :
             SearchCall(kb, query, config, results, use_cache, cache_empty)
       \/ \E kb \in KBs : InvalidateCall(kb)

NextCache ==
    \/ CacheCallStep
    \/ \E backendError \in BOOLEAN : CacheGet(backendError)
    \/ \E backendError \in BOOLEAN : CacheSet(backendError)
    \/ \E backendError \in BOOLEAN : InvalidateStep(backendError)
    \/ \E key \in CacheKeys : ExpireKey(key)
    \/ ReturnCache

SpecCache == Init /\ [][NextCache]_vars

\* ------------------------------------------------------------ knowledge base
\* The knowledge base K that owns the documents of the pipeline: its tags, its
\* permissions and its deletion.  Every handler starts with check_kb_permission,
\* which answers 404 once the row is gone.

KbTags == {"t1"}
KbUsers == {"u1"}

\* update_knowledge_base with tags given: the old tag rows are deleted and one
\* row per given name is added, in one commit
UpdateKnowledgeBase(tags) ==
    /\ knowledge_base.exists
    /\ knowledge_base.tags # tags
    /\ knowledge_base' = [knowledge_base EXCEPT !.tags = tags]
    /\ UNCHANGED pipelineVars
    /\ UNCHANGED notKb

\* create_kb_permission: 400 when the user already has a row for K
CreateKbPermission(u) ==
    /\ knowledge_base.exists
    /\ u \notin knowledge_base.permissions
    /\ knowledge_base' = [knowledge_base EXCEPT !.permissions = @ \cup {u}]
    /\ UNCHANGED pipelineVars
    /\ UNCHANGED notKb

\* delete_kb_permission: 404 when the user has no row for K
DeleteKbPermission(u) ==
    /\ knowledge_base.exists
    /\ u \in knowledge_base.permissions
    /\ knowledge_base' = [knowledge_base EXCEPT !.permissions = @ \ {u}]
    /\ UNCHANGED pipelineVars
    /\ UNCHANGED notKb

\* delete_knowledge_base: db.delete(kb) and the commit.  The relationship
\* cascades and the ON DELETE CASCADE foreign keys remove the document rows,
\* their chunk rows, the tag rows and the permission rows.  The handler calls
\* neither the vector store nor the object store and sends no task.  Taken while
\* no delete_document request is between its two steps.
DeleteKnowledgeBase ==
    /\ knowledge_base.exists
    /\ deleting = {}
    /\ knowledge_base' = [exists |-> FALSE, tags |-> {}, permissions |-> {}]
    /\ documents' = [d \in Docs |->
                        IF Exists(d) THEN [documents[d] EXCEPT !.status = "DELETED"]
                        ELSE documents[d]]
    /\ chunks' = {}
    /\ cache' = NoteEvent(cache)
    /\ UNCHANGED <<vectors, collection, blobs, queue, worker, nextId, deleting,
                   lastSearch, dvDone, faults, requests>>
    /\ UNCHANGED notKb

KbStep ==
    \/ \E tags \in SUBSET KbTags : UpdateKnowledgeBase(tags)
    \/ \E u \in KbUsers : CreateKbPermission(u)
    \/ \E u \in KbUsers : DeleteKbPermission(u)
    \/ DeleteKnowledgeBase

\* the document handlers answer 404 for a knowledge base that is gone
KbApiStep ==
    /\ knowledge_base.exists
    /\ ApiStep

\* The pipeline with one worker, and the knowledge base handlers beside it.
NextKb ==
    \/ KbApiStep
    \/ \E w \in SearchWorkers : WorkerStep(w)
    \/ KbStep

SpecKb == Init /\ [][NextKb]_vars

\* ------------------------------------------------------------ rank fusion
\* HybridRetriever._rrf_fusion on its own, for result lists of up to
\* MaxFusionLen hits.

\* the result lists a sub-search hands to the fusion: distinct chunks, best
\* first, each with the sub-search's own score
FusionLists ==
    LET idLists == {ids \in UNION {[1 .. n -> FusionIds] : n \in 0 .. MaxFusionLen} :
                       \A i, j \in DOMAIN ids : i # j => ids[i] # ids[j]}
    IN  {[i \in DOMAIN ids |-> [chunk_id |-> ids[i], score |-> RetrieverScore(i)]] :
            ids \in idLists}

\* _fuse_results is entered with the two lists
CallFusion(semantic_results, keyword_results) ==
    /\ fusion.phase = "idle"
    /\ fusion' = [NoFusion EXCEPT !.phase = "called",
                                  !.semantic_results = semantic_results,
                                  !.keyword_results = keyword_results]
    /\ UNCHANGED notFusion

\* the fusion of the configured strategy runs to its return statement
RunFusion ==
    /\ fusion.phase = "called"
    /\ fusion' = [fusion EXCEPT !.phase = "done",
                     !.fused_results =
                         FuseResults(fusion.strategy, fusion.semantic_results,
                                     fusion.keyword_results)]
    /\ UNCHANGED notFusion

ReturnFusion ==
    /\ fusion.phase = "done"
    /\ fusion' = NoFusion
    /\ UNCHANGED notFusion

FusionCallStep ==
    /\ fusion.phase = "idle"
    /\ \E semantic_results \in FusionLists, keyword_results \in FusionLists :
          CallFusion(semantic_results, keyword_results)

NextFusion ==
    \/ FusionCallStep
    \/ RunFusion
    \/ ReturnFusion

SpecFusion == Init /\ [][NextFusion]_vars

\* ------------------------------------------------------------ fusion strategies
\* _fuse_results under each FusionStrategy, for result lists whose scores are
\* drawn from a few values so that fused scores tie.

FusionStrategies == {"rrf", "weighted", "linear"}

\* the scores of a sub-search, in tenths
FuseScores == {3, 7, 10}

\* the result lists of a sub-search: distinct chunks, scores non-increasing
ScoredLists ==
    LET idLists == {ids \in UNION {[1 .. n -> ChunkIds] : n \in 0 .. MaxFuseLen} :
                       \A i, j \in DOMAIN ids : i # j => ids[i] # ids[j]}
        scoreLists(n) == {sc \in [1 .. n -> FuseScores] :
                             \A i, j \in 1 .. n : i < j => sc[i] >= sc[j]}
    IN  UNION {{[i \in DOMAIN ids |-> [chunk_id |-> ids[i], score |-> sc[i]]] :
                   sc \in scoreLists(Len(ids))} : ids \in idLists}

\* _fuse_results is entered with the two lists under a strategy
CallFuse(strategy, semantic_results, keyword_results) ==
    /\ fusion.phase = "idle"
    /\ fusion' = [NoFusion EXCEPT !.phase = "called", !.strategy = strategy,
                                  !.semantic_results = semantic_results,
                                  !.keyword_results = keyword_results]
    /\ UNCHANGED notFusion

FuseCallStep ==
    /\ fusion.phase = "idle"
    /\ \E strategy \in FusionStrategies, semantic_results \in ScoredLists,
          keyword_results \in ScoredLists :
          CallFuse(strategy, semantic_results, keyword_results)

NextFuse ==
    \/ FuseCallStep
    \/ RunFusion
    \/ ReturnFusion

SpecFuse == Init /\ [][NextFuse]_vars

\* ------------------------------------------------------------ task retries
\* process_document_task for one document, taken alone: the message sent by
\* the API, its executions one at a time, and the retry messages they send.

\* send_task_async("app.tasks.document.process_document", document_id, force)
SendProcessTask(d, force) ==
    /\ ~taskRun.sent
    /\ taskRun' = [taskRun EXCEPT !.sent = TRUE,
                                  !.broker = Enqueue(@, ProcessTask(d, force, 0))]
    /\ UNCHANGED notTaskRun

\* a worker takes a message and calls process_document_task
TaskStart(t) ==
    /\ taskRun.running = NoTask
    /\ BagIn(t, taskRun.broker)
    /\ taskRun' = [taskRun EXCEPT !.broker = Dequeue(@, t), !.running = t,
                                  !.executions = @ + 1, !.returned = "none"]
    /\ UNCHANGED notTaskRun

\* process_document returns its result and process_document_task ends: with
\* "success", with the retry messages sent, or with "failed"
TaskEnd(success) ==
    LET t == taskRun.running IN
    /\ t # NoTask
    /\ taskRun' = [taskRun EXCEPT
                      !.running = NoTask,
                      !.broker = IF success THEN @ ELSE AfterFailure(@, t),
                      !.returned = IF success THEN "success"
                                   ELSE IF t.retries < MaxRetries THEN "retry"
                                   ELSE "failed"]
    /\ UNCHANGED notTaskRun

TaskTakeStep ==
    /\ taskRun.running = NoTask
    /\ \E t \in Tasks : TaskStart(t)

NextTask ==
    \/ \E d \in Docs, force \in BOOLEAN : SendProcessTask(d, force)
    \/ TaskTakeStep
    \/ \E success \in BOOLEAN : TaskEnd(success)

SpecTask == Init /\ [][NextTask]_vars

\* ------------------------------------------------------------ embeddings
\* OpenAIEmbeddingService.embed_texts: the batches of one call, the requests of
\* each batch and what the provider answers.  A vector is written as the text
\* it is the embedding of and its dimension; log and slept are the answers and
\* the backoff delays of the batch under way; permuted is history: a 200 answer
\* of the call had its entries out of input order.

Texts == <<"t1", "t2", "t3">>

\* the dimension of a returned vector: EmbeddingConfig.dimension or another
Dimensions == {"configured", "other"}

\* what one POST to the embeddings URL ends with: 200, 429, 5xx, another
\* non-200 status, httpx.TimeoutException, or another exception
Answers == {"ok", "rate_limit", "server_error", "client_error", "timeout", "connect_error"}

\* every non-200 answer retried
RetryableAny(answer) == answer # "ok"

\* the answers after which _embed_batch sleeps and goes on with the loop
Retryable(answer) == answer \in {"rate_limit", "server_error", "timeout", "connect_error"}

\* 2**n, the backoff delay of attempt n in seconds
RECURSIVE TwoTo(_)
TwoTo(n) == IF n = 0 THEN 1 ELSE 2 * TwoTo(n - 1)

\* texts[i : i + batch_size]
BatchAt(texts, i, batch_size) ==
    SubSeq(texts, i + 1, IF i + batch_size < Len(texts) THEN i + batch_size
                         ELSE Len(texts))

Orders(m) ==
    {p \in [1 .. m -> 1 .. m] : \A a, b \in 1 .. m : a # b => p[a] # p[b]}

\* the "data" list of a 200 answer: one entry per input of the batch, the entry
\* with index j holding the embedding of input j, in the order perm
ProviderData(batch, perm, dim) ==
    [k \in 1 .. Len(batch) |->
        [index |-> perm[k] - 1,
         embedding |-> [text |-> batch[perm[k]], dim |-> dim]]]

\* sorted(data, key=lambda x: x["index"]): stable, ascending
RECURSIVE SortByIndex(_)
SortByIndex(seq) ==
    IF seq = <<>> THEN <<>>
    ELSE LET x == seq[1]
             rest == SortByIndex(Tail(seq))
             before == {i \in DOMAIN rest : rest[i].index < x.index}
             at == Cardinality(before)
         IN  SubSeq(rest, 1, at) \o <<x>> \o SubSeq(rest, at + 1, Len(rest))

\* the vectors of a 200 answer taken in the order received
VectorsAsReceived(data) == [k \in DOMAIN data |-> data[k].embedding]

\* vectors = [e["embedding"] for e in sorted(data, key=index)]
VectorsOfData(data) ==
    LET embeddings == SortByIndex(data)
    IN  [k \in DOMAIN embeddings |-> embeddings[k].embedding]

\* embed_texts is called with n texts
CallEmbedTexts(n, batch_size) ==
    /\ embed.phase = "idle"
    /\ embed' = [NoEmbed EXCEPT !.phase = "batch", !.texts = SubSeq(Texts, 1, n),
                                !.batch_size = batch_size]
    /\ UNCHANGED notEmbed

\* one pass of the retry loop of _embed_batch: the POST and what follows its
\* answer.  200 ends the batch with the vectors, a retryable answer sleeps
\* 2**attempt, any other answer leaves the loop; when the loop is over
\* without a 200 the RuntimeError is raised.  After the last batch embed_texts
\* returns all vectors.
EmbedRequest(answer, perm, dim) ==
    LET batch == BatchAt(embed.texts, embed.i, embed.batch_size)
        next == embed.i + embed.batch_size
        more == next < Len(embed.texts)
        over == embed.attempt + 1 >= EmbedMaxRetries
    IN
    /\ embed.phase = "batch"
    /\ perm \in Orders(Len(batch))
    /\ answer # "ok" => dim = "configured" /\ \A k \in DOMAIN perm : perm[k] = k
    /\ embed' =
         IF answer = "ok"
         THEN [embed EXCEPT
                  !.all_vectors = @ \o VectorsOfData(ProviderData(batch, perm, dim)),
                  !.i = next,
                  !.attempt = 0,
                  !.permuted = @ \/ \E k \in DOMAIN perm : perm[k] # k,
                  !.log = IF more THEN <<>> ELSE Append(@, answer),
                  !.slept = IF more THEN <<>> ELSE @,
                  !.phase = IF more THEN "batch" ELSE "done"]
         ELSE IF Retryable(answer)
         THEN [embed EXCEPT
                  !.log = Append(@, answer),
                  !.slept = Append(@, TwoTo(embed.attempt)),
                  !.attempt = @ + 1,
                  !.raised = over,
                  !.phase = IF over THEN "done" ELSE "batch"]
         ELSE [embed EXCEPT !.log = Append(@, answer), !.raised = TRUE,
                            !.phase = "done"]
    /\ UNCHANGED notEmbed

ReturnEmbed ==
    /\ embed.phase = "done"
    /\ embed' = NoEmbed
    /\ UNCHANGED notEmbed

EmbedCallStep ==
    /\ embed.phase = "idle"
    /\ \E n \in 1 .. MaxTexts, batch_size \in 1 .. MaxBatchSize :
          CallEmbedTexts(n, batch_size)

EmbedRequestStep ==
    /\ embed.phase = "batch"
    /\ \E answer \in Answers, dim \in Dimensions,
          perm \in UNION {Orders(m) : m \in 1 .. MaxBatchSize} :
          EmbedRequest(answer, perm, dim)

NextEmbed ==
    \/ EmbedCallStep
    \/ EmbedRequestStep
    \/ ReturnEmbed

SpecEmbed == Init /\ [][NextEmbed]_vars

\* ------------------------------------------------------------ chunker
\* DocumentChunker.chunk under its three strategies.  A text is a sequence of
\* characters; positions are Python's, counted from 0.

\* the characters of a text: a letter, a CJK character (written han), a
\* space, a full stop and a line feed
Chars == {"a", "han", " ", ".", "\n"}

Strings == UNION {[1 .. n -> Chars] : n \in 0 .. MaxTextLen}

ChunkStrategies == {"fixed_size", "recursive", "semantic"}

\* str.isspace of a character
IsSpace(c) == c \in {" ", "\n"}

\* a character of [\u4e00-\u9fff]
IsCjk(c) == c = "han"

\* a character of the sentence punctuation class, of which . is in Chars
IsPunct(c) == c = "."

\* s[a:b]: a negative bound counts from the end, bounds are clipped
PySlice(s, a, b) ==
    LET Norm(x) == IF x < 0 THEN (IF Len(s) + x < 0 THEN 0 ELSE Len(s) + x)
                   ELSE (IF x > Len(s) THEN Len(s) ELSE x)
    IN  IF Norm(a) >= Norm(b) THEN <<>> ELSE SubSeq(s, Norm(a) + 1, Norm(b))

\* str.strip()
Strip(s) ==
    LET inked == {i \in DOMAIN s : ~IsSpace(s[i])}
    IN  IF inked = {} THEN <<>> ELSE SubSeq(s, Min(inked), Max(inked))

\* text.find(sub, from): the first position at or after from, or -1
Find(text, sub, from) ==
    LET at == {i \in from .. Len(text) - Len(sub) :
                  SubSeq(text, i + 1, i + Len(sub)) = sub}
    IN  IF at = {} THEN -1 ELSE Min(at)

\* Chunk.token_count
TokenCount(content) ==
    LET chinese_chars == Cardinality({i \in DOMAIN content : IsCjk(content[i])})
        other_chars == Len(content) - chinese_chars
    IN  chinese_chars + (other_chars \div 4)

\* text.split(separator) for a non-empty separator
RECURSIVE SplitOn(_, _)
SplitOn(text, separator) ==
    LET at == Find(text, separator, 0)
    IN  IF at = -1 THEN <<text>>
        ELSE <<SubSeq(text, 1, at)>>
                 \o SplitOn(SubSeq(text, at + Len(separator) + 1, Len(text)),
                            separator)

\* keep_separator: the separator stays at the end of each part but the last,
\* and an empty last part is dropped
KeepSeparator(parts, separator) ==
    LET n == Len(parts)
        kept == [i \in 1 .. n - 1 |-> parts[i] \o separator]
    IN  IF parts[n] # <<>> THEN Append(kept, parts[n]) ELSE kept

\* ChunkConfig.separators: those of the default list that occur in texts over
\* Chars, in the list's order; a separator absent from the text hands the text
\* on to the next one unchanged
Separators == << <<"\n", "\n">>, <<"\n">>, <<".">>, <<" ">>, <<>> >>

\* RecursiveChunker._split_recursive, and its loop over the splits
RECURSIVE SplitRecursive(_, _, _)
RECURSIVE SplitEach(_, _, _)
SplitRecursive(text, separators, chunk_size) ==
    IF separators = <<>> THEN <<text>>
    ELSE IF Head(separators) = <<>> THEN [i \in DOMAIN text |-> <<text[i]>>]
    ELSE SplitEach(KeepSeparator(SplitOn(text, Head(separators)), Head(separators)),
                   Tail(separators), chunk_size)

SplitEach(splits, remaining_separators, chunk_size) ==
    IF splits = <<>> THEN <<>>
    ELSE (IF Len(Head(splits)) > chunk_size /\ remaining_separators # <<>>
          THEN SplitRecursive(Head(splits), remaining_separators, chunk_size)
          ELSE <<Head(splits)>>)
             \o SplitEach(Tail(splits), remaining_separators, chunk_size)

\* the chunks with blank ones dropped and the others stripped
Stripped(merged, current_chunk) ==
    IF Strip(current_chunk) # <<>> THEN Append(merged, Strip(current_chunk))
    ELSE merged

\* RecursiveChunker._merge_splits
MergeSplits(splits, chunk_size, chunk_overlap) ==
    LET at[i \in 0 .. Len(splits)] ==
            IF i = 0 THEN [current_chunk |-> <<>>, merged |-> <<>>]
            ELSE LET was == at[i - 1]
                     split == splits[i]
                     overlap_text == PySlice(was.current_chunk, -chunk_overlap,
                                             Len(was.current_chunk))
                 IN  IF was.current_chunk = <<>>
                     THEN [was EXCEPT !.current_chunk = split]
                     ELSE IF Len(was.current_chunk) + Len(split) <= chunk_size
                     THEN [was EXCEPT !.current_chunk = @ \o split]
                     ELSE [current_chunk |-> IF chunk_overlap > 0
                                             THEN overlap_text \o split
                                             ELSE split,
                           merged |-> Stripped(was.merged, was.current_chunk)]
    IN  Stripped(at[Len(splits)].merged, at[Len(splits)].current_chunk)

\* the loop that makes the Chunk objects: each text is looked up in the
\* source from the end of the previous chunk, and put at that end when it is
\* not found
Locate(text, merged) ==
    LET at[i \in 0 .. Len(merged)] ==
            IF i = 0 THEN [chunks |-> <<>>, current_pos |-> 0]
            ELSE LET was == at[i - 1]
                     found == Find(text, merged[i], was.current_pos)
                     start == IF found = -1 THEN was.current_pos ELSE found
                     end == start + Len(merged[i])
                 IN  [chunks |-> Append(was.chunks,
                                        [content |-> merged[i], index |-> i - 1,
                                         start_char |-> start, end_char |-> end]),
                      current_pos |-> end]
    IN  at[Len(merged)].chunks

\* re.split(r"\n\s*\n", text): the leftmost line feed that a run of white
\* space joins to another line feed, up to the last such line feed
RECURSIVE SplitBlankLines(_)
SplitBlankLines(text) ==
    LET Joined(i, j) == /\ text[i] = "\n"
                        /\ text[j] = "\n"
                        /\ \A k \in i + 1 .. j - 1 : IsSpace(text[k])
        first == {i \in DOMAIN text : \E j \in i + 1 .. Len(text) : Joined(i, j)}
        i == Min(first)
        j == Max({k \in i + 1 .. Len(text) : Joined(i, k)})
    IN  IF first = {} THEN <<text>>
        ELSE <<SubSeq(text, 1, i - 1)>> \o SplitBlankLines(SubSeq(text, j + 1, Len(text)))

\* [p.strip() for p in parts if p.strip()]
RECURSIVE StripAll(_)
StripAll(parts) ==
    IF parts = <<>> THEN <<>>
    ELSE (IF Strip(Head(parts)) # <<>> THEN <<Strip(Head(parts))>> ELSE <<>>)
             \o StripAll(Tail(parts))

\* SemanticChunker._split_paragraphs
SplitParagraphs(text) == StripAll(SplitBlankLines(text))

\* SemanticChunker._split_sentences: each stretch of text with the run of
\* punctuation that ends it
RECURSIVE SentenceParts(_)
SentenceParts(text) ==
    LET punct == {i \in DOMAIN text : IsPunct(text[i])}
        from == Min(punct)
        after == {i \in from .. Len(text) : ~IsPunct(text[i])}
        upto == IF after = {} THEN Len(text) ELSE Min(after) - 1
    IN  IF text = <<>> THEN <<>>
        ELSE IF punct = {} THEN <<text>>
        ELSE <<SubSeq(text, 1, upto)>> \o SentenceParts(SubSeq(text, upto + 1, Len(text)))

SplitSentences(text) == StripAll(SentenceParts(text))

\* SemanticChunker._merge_sentences
MergeSentences(sentences, chunk_size) ==
    LET at[i \in 0 .. Len(sentences)] ==
            IF i = 0 THEN [current_chunk |-> <<>>, merged |-> <<>>]
            ELSE LET was == at[i - 1]
                     sentence == sentences[i]
                 IN  IF was.current_chunk = <<>>
                     THEN [was EXCEPT !.current_chunk = sentence]
                     ELSE IF Len(was.current_chunk) + Len(sentence) + 1 <= chunk_size
                     THEN [was EXCEPT !.current_chunk = @ \o <<" ">> \o sentence]
                     ELSE [current_chunk |-> sentence,
                           merged |-> Stripped(was.merged, was.current_chunk)]
    IN  Stripped(at[Len(sentences)].merged, at[Len(sentences)].current_chunk)

\* SemanticChunker.chunk: a paragraph that fits is one chunk, a longer one is
\* cut into sentences that are merged again
RECURSIVE SemanticPieces(_, _)
SemanticPieces(paragraphs, chunk_size) ==
    IF paragraphs = <<>> THEN <<>>
    ELSE (IF Len(Head(paragraphs)) <= chunk_size THEN <<Head(paragraphs)>>
          ELSE MergeSentences(SplitSentences(Head(paragraphs)), chunk_size))
             \o SemanticPieces(Tail(paragraphs), chunk_size)

\* DocumentChunker.chunk is called; an empty text returns [] at once
CallChunk(strategy, text, chunk_size, chunk_overlap) ==
    /\ chunker.phase = "idle"
    /\ chunker' = [NoChunker EXCEPT
                      !.phase = IF text = <<>> THEN "done"
                                ELSE IF strategy = "fixed_size" THEN "loop"
                                ELSE "called",
                      !.strategy = strategy,
                      !.text = text,
                      !.chunk_size = chunk_size,
                      !.chunk_overlap = chunk_overlap]
    /\ UNCHANGED notChunker

\* FixedSizeChunker.chunk: one pass of the while loop
FixedIteration ==
    LET text == chunker.text
        start == chunker.start
        end == IF start + chunker.chunk_size < Len(text)
               THEN start + chunker.chunk_size ELSE Len(text)
        chunk_text == PySlice(text, start, end)
        kept == Strip(chunk_text) # <<>>
    IN
    /\ chunker.phase = "loop"
    /\ start < Len(text)
    /\ chunker.iterations < MaxIterations
    /\ chunker' = [chunker EXCEPT
                      !.chunks = IF kept
                                 THEN Append(@, [content |-> chunk_text,
                                                 index |-> chunker.index,
                                                 start_char |-> start,
                                                 end_char |-> end])
                                 ELSE @,
                      !.index = IF kept THEN @ + 1 ELSE @,
                      !.start = IF end < Len(text) THEN end - chunker.chunk_overlap
                                ELSE Len(text),
                      !.iterations = @ + 1]
    /\ UNCHANGED notChunker

\* FixedSizeChunker.chunk: the while condition is false, return chunks
FixedReturn ==
    /\ chunker.phase = "loop"
    /\ chunker.start >= Len(chunker.text)
    /\ chunker' = [chunker EXCEPT !.phase = "done"]
    /\ UNCHANGED notChunker

\* RecursiveChunker.chunk
RunRecursive ==
    /\ chunker.phase = "called"
    /\ chunker.strategy = "recursive"
    /\ chunker' =
         [chunker EXCEPT
             !.phase = "done",
             !.chunks = Locate(chunker.text,
                               MergeSplits(SplitRecursive(chunker.text, Separators,
                                                          chunker.chunk_size),
                                           chunker.chunk_size, chunker.chunk_overlap))]
    /\ UNCHANGED notChunker

\* SemanticChunker.chunk
RunSemantic ==
    /\ chunker.phase = "called"
    /\ chunker.strategy = "semantic"
    /\ chunker' =
         [chunker EXCEPT
             !.phase = "done",
             !.chunks = Locate(chunker.text,
                               SemanticPieces(SplitParagraphs(chunker.text),
                                              chunker.chunk_size))]
    /\ UNCHANGED notChunker

\* the chunks are handed to the caller
ReturnChunk ==
    /\ chunker.phase = "done"
    /\ chunker' = NoChunker
    /\ UNCHANGED notChunker

ChunkCallStep ==
    /\ chunker.phase = "idle"
    /\ \E strategy \in ChunkStrategies, text \in Strings,
          chunk_size \in 1 .. MaxChunkSize, chunk_overlap \in 0 .. MaxChunkSize :
          CallChunk(strategy, text, chunk_size, chunk_overlap)

NextChunker ==
    \/ ChunkCallStep
    \/ FixedIteration
    \/ FixedReturn
    \/ RunRecursive
    \/ RunSemantic
    \/ ReturnChunk

SpecChunker == Init /\ [][NextChunker]_vars

\* ------------------------------------------------------------ concurrent searches
\* POST /search with use_cache, step by step, for requests that run side by
\* side, and DELETE /search/cache/{kb} beside them.

RequestKey(r) == CacheKey("q", SearchedKb, searches.request[r].config)

\* POST /search arrives: the pipeline is built from mode, hybrid options and
\* rerank options; the SearchConfig of the cache calls from top_k,
\* score_threshold and filters
SearchArrives(r, plan, config) ==
    /\ searches.request[r].phase = "idle"
    /\ searches' = [searches EXCEPT
                       !.request[r] = [NoRequest EXCEPT !.phase = "get",
                                                        !.plan = plan,
                                                        !.config = config]]
    /\ UNCHANGED notSearches

\* search: cache.get; a hit is the answer, a miss goes on to the pipeline
SearchGet(r) ==
    LET entry == searches.redis[RequestKey(r)] IN
    /\ searches.request[r].phase = "get"
    /\ searches' = [searches EXCEPT
                       !.request[r] =
                           IF entry.present
                           THEN [@ EXCEPT !.phase = "done", !.from_cache = TRUE,
                                          !.served = [by |-> entry.by,
                                                      late |-> entry.late]]
                           ELSE [@ EXCEPT !.phase = "search"]]
    /\ UNCHANGED notSearches

\* search: pipeline.search computes the results
SearchPipeline(r) ==
    /\ searches.request[r].phase = "search"
    /\ searches' = [searches EXCEPT
                       !.request[r] = [@ EXCEPT !.phase = "set",
                                                !.seen = searches.begun]]
    /\ UNCHANGED notSearches

\* search: cache.set stores the results under the key of the request
SearchSet(r) ==
    /\ searches.request[r].phase = "set"
    /\ searches' = [searches EXCEPT
                       !.request[r] = [@ EXCEPT !.phase = "done"],
                       !.redis[RequestKey(r)] =
                           [present |-> TRUE,
                            by |-> searches.request[r].plan,
                            late |-> searches.ended > searches.request[r].seen]]
    /\ UNCHANGED notSearches

\* search: the response goes out
SearchReturns(r) ==
    /\ searches.request[r].phase = "done"
    /\ searches' = [searches EXCEPT !.request[r] = NoRequest]
    /\ UNCHANGED notSearches

\* invalidate_knowledge_base: scan_iter starts; the keys present now are
\* certain to be handed over
InvalidateBegins ==
    /\ ~searches.scanning
    /\ searches.begun < MaxInvalidations
    /\ searches' = [searches EXCEPT
                       !.scanning = TRUE,
                       !.begun = @ + 1,
                       !.todo = {key \in SearchedKeys : searches.redis[key].present}]
    /\ UNCHANGED notSearches

\* invalidate_knowledge_base: the scan hands over a key and it is deleted; a
\* key stored after the scan began may be handed over too
InvalidateDeletes(key) ==
    /\ searches.scanning
    /\ searches.redis[key].present
    /\ searches' = [searches EXCEPT !.redis[key] = NoStored,
                                    !.todo = @ \ {key}]
    /\ UNCHANGED notSearches

\* invalidate_knowledge_base: the scan is over, the count is returned
InvalidateEnds ==
    /\ searches.scanning
    /\ \A key \in searches.todo : ~searches.redis[key].present
    /\ searches' = [searches EXCEPT !.scanning = FALSE, !.todo = {},
                                    !.ended = @ + 1]
    /\ UNCHANGED notSearches

SearchArrivesStep(r) ==
    /\ searches.request[r].phase = "idle"
    /\ \E plan \in Plans, config \in Configs : SearchArrives(r, plan, config)

NextSearches ==
    \/ \E r \in Requesters : SearchArrivesStep(r)
    \/ \E r \in Requesters : SearchGet(r)
    \/ \E r \in Requesters : SearchPipeline(r)
    \/ \E r \in Requesters : SearchSet(r)
    \/ \E r \in Requesters : SearchReturns(r)
    \/ InvalidateBegins
    \/ \E key \in SearchedKeys : InvalidateDeletes(key)
    \/ InvalidateEnds

SpecSearches == Init /\ [][NextSearches]_vars

\* ------------------------------------------------------------ running workers
\* The pipeline with one worker that keeps running: whenever the worker can
\* take a step (a task waits in the broker, or its task is under way) it
\* eventually takes one, and a delete_document under way runs to its commit.
\* Requests to the API, the broker refusing a message and
\* process_pending_documents_task, which nothing schedules or sends, come
\* when they come.

NextPipeline ==
    \/ ApiStep
    \/ \E w \in SearchWorkers : WorkerStep(w)

SpecLive ==
    /\ Init
    /\ [][NextPipeline]_vars
    /\ \A w \in SearchWorkers : WF_vars(WorkerStep(w))
    /\ \A d \in Docs : WF_vars(DeleteCommit(d))

\* ------------------------------------------------------------ claims

DocOf(w) == worker[w].task.document_id

\* worker w is inside process_document, past the status check
InPipeline(w) ==
    /\ worker[w].task.name = "process_document"
    /\ worker[w].pc \in {"download", "del_select", "del_vectors", "del_rows",
                         "coll_check", "coll_create", "embed_store", "save_commit"}

\* the step in which process_document commits COMPLETED and returns
Completes(w) == SaveCommit(w, FALSE) /\ worker'[w].pc = "idle"

\* this execution of process_document is the one that wrote PROCESSING
MovedToProcessing(w) ==
    /\ worker[w].task.name = "process_document"
    /\ worker[w].pc \notin {"idle", "set_processing"}
    /\ worker[w].loaded # "PROCESSING"
    /\ worker[w].error # "stale_row"

\* C1: of two process_document executions on the same document that overlap
\* in time at most one commits COMPLETED, and once one of them has, the other
\* writes no chunk row and no vector.
C1_AtMostOneCompleted ==
    [][\A w \in Workers :
          worker[w].peer_completed /\ WorkerStep(w) =>
              /\ ~Completes(w)
              /\ UNCHANGED <<chunks, vectors>>]_vars

\* C2: in every committed state every COMPLETED document has exactly
\* chunk_count chunk rows, each with its vector in the collection.
C2_CompletedHasItsChunks ==
    \A d \in Docs :
        documents[d].status = "COMPLETED" =>
            /\ Cardinality(ChunksOf(d)) = documents[d].chunk_count
            /\ \A c \in ChunksOf(d) : \E v \in vectors : v.id = c.vector_id

\* C3: when a process_document run commits COMPLETED, the collection holds for
\* the document exactly the vector ids of its chunk rows.
C3_ExactVectorsAfterCompleted ==
    [][\A w \in Workers :
          Completes(w) =>
              {v.id : v \in {x \in vectors' : x.document_id = DocOf(w)}}
                = {c.vector_id : c \in {x \in chunks' : x.document_id = DocOf(w)}}]_vars

\* C4: once delete_document has committed and its delete-vectors task has run,
\* no chunk row, no vector and no blob of the document remains - here already
\* for the runs in which no service raised an error and no worker was lost.
C4_NoResidueAfterDelete ==
    \A d \in Docs :
        documents[d].status = "DELETED" /\ d \in dvDone /\ faults = 0 =>
            /\ ChunksOf(d) = {}
            /\ VectorsOf(d) = {}
            /\ d \notin blobs

\* C5: a search is never answered from a cache entry that was stored before a
\* document of the knowledge base completed, failed or was deleted.
C5_NoStaleCacheHit ==
    lastSearch.from_cache => ~lastSearch.stale

\* C6: every change of Document.status is PENDING->PROCESSING,
\* PROCESSING->COMPLETED, PROCESSING->FAILED, or COMPLETED->PENDING /
\* FAILED->PENDING by reprocess_documents (creation and deletion of the row
\* aside).
C6_StatusTransitions ==
    [][\A d \in Docs :
          documents'[d].status # documents[d].status
            /\ documents'[d].status # "DELETED" =>
              /\ <<documents[d].status, documents'[d].status>>
                   \in {<<"NONE", "PENDING">>, <<"PENDING", "PROCESSING">>,
                        <<"PROCESSING", "COMPLETED">>, <<"PROCESSING", "FAILED">>,
                        <<"COMPLETED", "PENDING">>, <<"FAILED", "PENDING">>}
              /\ documents'[d].status = "PENDING" /\ documents[d].status # "NONE" =>
                     \E sent \in BOOLEAN : Reprocess(d, sent)]_vars

\* C7: at no time are two workers both inside pipeline steps 3-11 for the
\* same document.
C7_OneWorkerPerDocument ==
    \A w1, w2 \in Workers :
        w1 # w2 /\ InPipeline(w1) /\ InPipeline(w2) => DocOf(w1) # DocOf(w2)

\* C8: when an execution of process_document that moved the document to
\* PROCESSING returns, it has written COMPLETED or FAILED: the document is
\* not left PROCESSING.
C8_TerminalWriteBeforeReturn ==
    [][\A w \in Workers :
          MovedToProcessing(w) /\ (FailWrite(w) \/ Completes(w)) /\ Exists(DocOf(w)) =>
              documents'[DocOf(w)].status \in {"COMPLETED", "FAILED"}]_vars

\* C9: an error between blob download and vector upsert ends with the
\* document FAILED, error_message holding the error and retry_count one up.
PipelineErrors ==
    {"download_error", "empty_text", "create_collection", "embed_error",
     "upsert_error"}

C9_FailureRecorded ==
    [][\A w \in Workers :
          FailWrite(w) /\ worker[w].error \in PipelineErrors /\ Exists(DocOf(w)) =>
              /\ documents'[DocOf(w)].status = "FAILED"
              /\ documents'[DocOf(w)].error_message = worker[w].error
              /\ documents'[DocOf(w)].retry_count
                   = documents[DocOf(w)].retry_count + 1]_vars

\* C10: in every committed state a FAILED document has no chunk rows and no
\* vectors in the collection.
C10_FailedHasNoChunks ==
    \A d \in Docs :
        documents[d].status = "FAILED" => ChunksOf(d) = {} /\ VectorsOf(d) = {}

\* C11: process_document(D, force=false) on a COMPLETED document returns
\* success with chunk_count = D.chunk_count and changes neither the document
\* row, nor the chunk rows, nor the collection, nor the blob.
C11_NoOpOnCompleted ==
    [][\A w \in Workers, t \in Tasks :
          /\ StartProcess(w, t)
          /\ documents[t.document_id].status = "COMPLETED"
          /\ ~t.force
          => /\ worker'[w].result =
                   ProcessingResult(TRUE, documents[t.document_id].chunk_count, TRUE)
             /\ worker'[w].pc = "idle"
             /\ UNCHANGED <<documents, chunks, vectors, collection, blobs>>]_vars

\* a worker has returned "Document already processed" for a COMPLETED document
C11_Witness ==
    \E w \in Workers :
        /\ worker[w].pc = "idle"
        /\ worker[w].result.already_processed
        /\ worker[w].result.chunk_count > 0

\* the other sub-search's hits with their fused scores 1 / (k + rank)
AloneFused(hits) ==
    [i \in DOMAIN hits |-> [chunk_id |-> hits[i].chunk_id, score |-> RrfScore(i)]]

C13_HybridBothFail ==
    retrieval.phase = "done" /\ retrieval.kind = "hybrid"
      /\ retrieval.semantic.raised /\ retrieval.keyword.raised =>
        retrieval.response.raised

\* C15: whatever the mode and the rerank options, RetrievalPipeline.search
\* returns at most top_k results, each with score >= score_threshold.
C15_TopKAndThreshold ==
    retrieval.phase = "done" /\ retrieval.kind = "pipeline"
      /\ ~retrieval.response.raised =>
        /\ Len(retrieval.response.hits) <= retrieval.top_k
        /\ \A i \in DOMAIN retrieval.response.hits :
               retrieval.response.hits[i].score >= retrieval.score_threshold

\* C14: a file whose extension has no registered parser, sent to
\* upload_documents or push_document, causes no side effect: no blob stored,
\* no document row, no processing task; once the request is answered the file
\* has been rejected.
C14_UnsupportedRejected ==
    \A i \in DOMAIN upload.files :
        ~upload.files[i] =>
            /\ i \notin upload.stored
            /\ i \notin upload.added
            /\ i \notin upload.rows
            /\ i \notin upload.sent
            /\ upload.phase = "done" => i \in upload.failed \/ upload.raised

C17_InvalidateKb ==
    cacheCall.op = "invalidate" =>
        /\ \A key \in CacheKeys :
               key.kb # cacheCall.kb => store[key] = cacheCall.before[key]
        /\ cacheCall.phase = "done" /\ ~cacheCall.failed =>
               \A key \in CacheKeys :
                   key.kb = cacheCall.kb /\ cacheCall.before[key].present =>
                       ~store[key].present

\* an invalidation has removed two entries of K while another knowledge base
\* has an entry
C17_Witness ==
    /\ cacheCall.phase = "done" /\ cacheCall.op = "invalidate"
    /\ cacheCall.deleted = 2
    /\ \E key \in CacheKeys : key.kb # cacheCall.kb /\ store[key].present

\* C18: a get that hits returns the first min(|R|, max_results) results of
\* the list R that set() was handed, in order, with the same chunk_id,
\* document_id, content, score and metadata; no entry holds more than
\* max_results results.
C18_CacheRoundTrip ==
    /\ \A key \in CacheKeys : Len(store[key].data) <= CacheMaxResults
    /\ cacheCall.phase = "done" /\ cacheCall.from_cache =>
          LET R == cacheCall.origin
              n == IF Len(R) < CacheMaxResults THEN Len(R) ELSE CacheMaxResults
          IN  /\ Len(cacheCall.response) = n
              /\ \A i \in 1 .. n :
                     /\ cacheCall.response[i].chunk_id = R[i].chunk_id
                     /\ cacheCall.response[i].document_id = R[i].document_id
                     /\ cacheCall.response[i].content = R[i].content
                     /\ cacheCall.response[i].score = R[i].score
                     /\ cacheCall.response[i].metadata = R[i].metadata

\* a hit on an entry that was cut to max_results when it was stored
C18_Witness ==
    /\ cacheCall.phase = "done" /\ cacheCall.from_cache
    /\ Len(cacheCall.origin) > CacheMaxResults
    /\ Len(cacheCall.response) = CacheMaxResults

C20_KbDeleteRemovesAll ==
    [][(knowledge_base.exists /\ ~knowledge_base'.exists) =>
          /\ \A d \in Docs : ~(documents'[d].status \in RowStatus)
          /\ chunks' = {}
          /\ knowledge_base'.tags = {}
          /\ knowledge_base'.permissions = {}
          /\ ~collection'
          /\ vectors' = {}
          /\ blobs' = {}]_vars

\* C21: in every committed state the chunk rows of a document carry pairwise
\* distinct chunk_index values, all in 0 .. chunk_count - 1 of the document row.
C21_ChunkIndexUnique ==
    \A d \in Docs :
        /\ \A c1 \in ChunksOf(d), c2 \in ChunksOf(d) :
              c1.chunk_index = c2.chunk_index => c1 = c2
        /\ \A c \in ChunksOf(d) :
              c.chunk_index \in 0 .. documents[d].chunk_count - 1

\* the chunk ids of a result list, in order
IdsOf(seq) == [i \in DOMAIN seq |-> seq[i].chunk_id]

\* a result list of the given chunk ids, best first
ListOf(ids) == [i \in DOMAIN ids |-> [chunk_id |-> ids[i], score |-> RetrieverScore(i)]]

\* the score of chunk c in a result list
ScoreOf(seq, c) == seq[RankIn(seq, c)].score

\* _rrf_fusion has returned for semantic=[A,B,C,D] and keyword=[C,A,E,F]
ExampleFused ==
    /\ fusion.phase = "done"
    /\ fusion.semantic_results = ListOf(<<"A", "B", "C", "D">>)
    /\ fusion.keyword_results = ListOf(<<"C", "A", "E", "F">>)

\* the scores of the example: A=1/61+1/62, B=1/62, C=1/63+1/61, D=1/64,
\* E=1/63, F=1/64
ExampleScores ==
    LET out == fusion.fused_results IN
    /\ ScoreOf(out, "A") = ScoreUnit \div 61 + ScoreUnit \div 62
    /\ ScoreOf(out, "B") = ScoreUnit \div 62
    /\ ScoreOf(out, "C") = ScoreUnit \div 63 + ScoreUnit \div 61
    /\ ScoreOf(out, "D") = ScoreUnit \div 64
    /\ ScoreOf(out, "E") = ScoreUnit \div 63
    /\ ScoreOf(out, "F") = ScoreUnit \div 64

\* C22 as stated: RRF fusion with k=60 of semantic=[A,B,C,D] and
\* keyword=[C,A,E,F] gives the listed scores and the order C, A, B, E, D, F.
C22_RrfExampleAsStated ==
    ExampleFused =>
        /\ Len(fusion.fused_results) = 6
        /\ ExampleScores
        /\ IdsOf(fusion.fused_results) = <<"C", "A", "B", "E", "D", "F">>

\* C22 amended: RRF fusion with k=60 of semantic=[A,B,C,D] and
\* keyword=[C,A,E,F] gives the listed scores and the order A, C, B, E, D, F
\* (A scores 1/61+1/62, which is more than C's 1/63+1/61).
C22_RrfExample ==
    ExampleFused =>
        /\ Len(fusion.fused_results) = 6
        /\ ExampleScores
        /\ IdsOf(fusion.fused_results) = <<"A", "C", "B", "E", "D", "F">>

C22_Witness == ExampleFused

\* C30: for any two result lists the RRF fusion holds each chunk id of either
\* list exactly once, scored with the sum over the lists holding it of
\* 1/(k + rank in that list), in order of non-increasing score.
C30_RrfFusion ==
    LET sem == fusion.semantic_results
        kw == fusion.keyword_results
        out == fusion.fused_results
        Contribution(seq, c) ==
            IF \E i \in DOMAIN seq : seq[i].chunk_id = c
            THEN ScoreUnit \div
                    (RrfK + (CHOOSE i \in DOMAIN seq : seq[i].chunk_id = c))
            ELSE 0
    IN  fusion.phase = "done" =>
        /\ \A i, j \in DOMAIN out : i # j => out[i].chunk_id # out[j].chunk_id
        /\ {out[i].chunk_id : i \in DOMAIN out}
              = {sem[i].chunk_id : i \in DOMAIN sem}
                    \cup {kw[i].chunk_id : i \in DOMAIN kw}
        /\ \A i \in DOMAIN out :
              out[i].score = Contribution(sem, out[i].chunk_id)
                                + Contribution(kw, out[i].chunk_id)
        /\ \A i, j \in DOMAIN out : i < j => out[i].score >= out[j].score

\* a fusion of two lists that share a chunk and each hold one of their own
C30_Witness ==
    /\ fusion.phase = "done"
    /\ \E c \in FusionIds :
          /\ RankIn(fusion.semantic_results, c) # 0
          /\ RankIn(fusion.keyword_results, c) # 0
    /\ \E c \in FusionIds :
          /\ RankIn(fusion.semantic_results, c) # 0
          /\ RankIn(fusion.keyword_results, c) = 0
    /\ \E c \in FusionIds :
          /\ RankIn(fusion.semantic_results, c) = 0
          /\ RankIn(fusion.keyword_results, c) # 0

\* C23: a process_document task and its retries are executed at most
\* max_retries + 1 = 4 times in total, each failed execution sending at most
\* one retry message, and an execution with retries = max_retries sends none.
C23_AtMostFourExecutions ==
    /\ taskRun.executions <= MaxRetries + 1
    /\ BagCardinality(taskRun.broker) <= 1
    /\ taskRun.returned = "failed" => taskRun.broker = EmptyBag

\* C24: when create_collection finds the collection already there - another
\* worker created it after this one's existence check, or the check answered
\* False on a backend error - the failure is swallowed: no execution of
\* process_document fails because of it.
C24_CreateExistingSwallowed ==
    \A w \in Workers :
        ~(worker[w].pc = "fail_write" /\ worker[w].error = "create_collection")

\* C25: every chunk row has the id of its vector record, so semantic search
\* and keyword search report the same chunk_id for the same chunk.
C25_ChunkIdIsVectorId ==
    /\ \A c \in chunks : c.id = c.vector_id
    /\ \A c \in chunks, v \in vectors :
          v.id = c.vector_id => SemanticChunkId(v) = KeywordChunkId(c)

\* C26: an answer of the provider whose vectors have another dimension than
\* the configured one makes embed_texts raise: no call returns a vector of a
\* wrong dimension to _embed_and_store_chunks, which upserts what it is given.
C26_DimensionMismatchRaised ==
    (embed.phase = "done" /\ ~embed.raised) =>
        \A k \in DOMAIN embed.all_vectors : embed.all_vectors[k].dim = "configured"

\* C27: a call of embed_texts that returns gives one vector per input text,
\* vector i being the embedding of text i, for every batch size and every
\* order of the entries inside the provider's answers.
C27_VectorPerText ==
    (embed.phase = "done" /\ ~embed.raised) =>
        /\ Len(embed.all_vectors) = Len(embed.texts)
        /\ \A k \in DOMAIN embed.all_vectors :
              embed.all_vectors[k].text = embed.texts[k]

\* a call over two batches that returned after an answer with permuted entries
C27_Witness ==
    /\ embed.phase = "done"
    /\ ~embed.raised
    /\ embed.permuted
    /\ embed.batch_size < Len(embed.texts)

\* C28: a batch is retried up to max_retries times after its first attempt:
\* the call raises on retryable failures (429, 5xx, timeout) alone only after
\* max_retries + 1 requests, so k <= max_retries such failures followed by a
\* 200 give a result after k + 1 requests.
C28_RetriesAfterFirstAttempt ==
    (/\ embed.phase = "done"
     /\ embed.raised
     /\ \A k \in DOMAIN embed.log :
           embed.log[k] \in {"rate_limit", "server_error", "timeout"})
        => Len(embed.log) = EmbedMaxRetries + 1

\* C29: a non-200 answer other than 429 and 5xx ends the batch: it is the last
\* request of the call, no backoff delay follows it and the call raises; as
\* the first answer it leaves exactly one request and no delay at all.
C29_FatalAnswer ==
    \A k \in DOMAIN embed.log :
        embed.log[k] = "client_error" =>
            /\ k = Len(embed.log)
            /\ embed.phase = "done"
            /\ embed.raised
            /\ Len(embed.slept) = k - 1

\* the first request of a batch was answered with such a status
C29_Witness ==
    /\ embed.phase = "done"
    /\ embed.log = <<"client_error">>
    /\ embed.slept = <<>>

\* C31: under each fusion strategy (RRF, weighted, linear) results with equal
\* fused score come out in the order in which their chunk ids were first
\* seen, the semantic list before the keyword list.
C31_TiesInFirstSeenOrder ==
    LET seen == FirstSeen(fusion.semantic_results, fusion.keyword_results)
        out == fusion.fused_results
    IN  fusion.phase = "done" =>
            \A i, j \in DOMAIN out :
                (i < j /\ out[i].score = out[j].score) =>
                    RankIn(seen, out[i].chunk_id) < RankIn(seen, out[j].chunk_id)

\* a linear fusion in which a chunk of the keyword list alone ties with a chunk
\* of the semantic list alone
C31_Witness ==
    /\ fusion.phase = "done"
    /\ fusion.strategy = "linear"
    /\ \E i, j \in DOMAIN fusion.fused_results :
          /\ i < j
          /\ fusion.fused_results[i].score = fusion.fused_results[j].score
          /\ RankIn(fusion.keyword_results, fusion.fused_results[i].chunk_id) = 0
          /\ RankIn(fusion.semantic_results, fusion.fused_results[j].chunk_id) = 0

\* C32: under every strategy, every chunk c emitted for a text T has
\* T[c.start_char : c.end_char] = c.content, and start_char never decreases
\* from one chunk to the next; stated here for configurations with
\* chunk_overlap < chunk_size.
C32_ContentIsSourceSlice ==
    (chunker.phase = "done" /\ chunker.chunk_overlap < chunker.chunk_size) =>
        /\ \A i \in DOMAIN chunker.chunks :
              PySlice(chunker.text, chunker.chunks[i].start_char,
                      chunker.chunks[i].end_char) = chunker.chunks[i].content
        /\ \A i, j \in DOMAIN chunker.chunks :
              i < j => chunker.chunks[i].start_char <= chunker.chunks[j].start_char

\* C33: every chunk of the fixed and of the recursive strategy is at most
\* chunk_size characters long, whatever the text, when chunk_overlap <
\* chunk_size.
C33_ChunkWithinSize ==
    (/\ chunker.phase = "done"
     /\ chunker.strategy \in {"fixed_size", "recursive"}
     /\ chunker.chunk_overlap < chunker.chunk_size) =>
        \A i \in DOMAIN chunker.chunks :
            Len(chunker.chunks[i].content) <= chunker.chunk_size

\* C34: the token count of a chunk is its number of CJK characters plus the
\* number of its other characters divided by 4 and rounded up.
C34_TokenCountRoundsUp ==
    \A i \in DOMAIN chunker.chunks :
        LET content == chunker.chunks[i].content
            cjk == Cardinality({k \in DOMAIN content : IsCjk(content[k])})
            other == Len(content) - cjk
        IN  /\ 4 * (TokenCount(content) - cjk) >= other
            /\ 4 * (TokenCount(content) - cjk) < other + 4

\* C39: with chunk_size >= 1 and chunk_overlap >= 0 the window start of the
\* fixed-size loop is strictly larger after every pass.
C39_StartIncreases == [][FixedIteration => chunker'.start > chunker.start]_vars

\* C35: a request answered from the cache gets an entry that a request with
\* the same retrieval mode, hybrid options and rerank options stored.
C35_HitHasSamePlan ==
    \A r \in Requesters :
        searches.request[r].from_cache =>
            searches.request[r].served.by = searches.request[r].plan

\* C36: results computed before an invalidation of the knowledge base and
\* stored after that invalidation has ended are not handed to a later search.
C36_NoLateResultsServed ==
    \A r \in Requesters :
        searches.request[r].from_cache => ~searches.request[r].served.late

\* a worker inside a task that has no step to take: the broker holds as many
\* messages as MaxInFlight lets the run follow
Stalled(w) == worker[w].pc # "idle" /\ ~ENABLED WorkerStep(w)

\* C37: while the workers keep running, a document committed as PENDING
\* eventually is COMPLETED or FAILED (or its row is deleted); it does not stay
\* PENDING because the processing task could not be sent.  Runs that end at
\* the bound of the broker are left aside.
C37_PendingIsProcessed ==
    \A d \in Docs :
        (documents[d].status = "PENDING")
            ~> \/ documents[d].status \in {"COMPLETED", "FAILED", "DELETED"}
               \/ \E w \in SearchWorkers : Stalled(w)

\* worker w returns from a run of process_document it was inside of
EndsRun(w) ==
    /\ worker[w].task.name = "process_document"
    /\ worker[w].pc # "idle"
    /\ worker'[w].pc = "idle"

\* C38: when a run of process_document ends on a document whose
\* delete_document has committed and whose delete-vectors task has run in the
\* meantime, no chunk row and no vector of the document exist - here for the
\* runs in which no service raised an error and no worker was lost.
C38_NoResidueAfterRace ==
    [][\A w \in Workers :
          (/\ EndsRun(w)
           /\ documents[DocOf(w)].status = "DELETED"
           /\ DocOf(w) \in dvDone
           /\ faults' = 0)
          => /\ {c \in chunks' : c.document_id = DocOf(w)} = {}
             /\ {v \in vectors' : v.document_id = DocOf(w)} = {}]_vars

\* C40: a process_document run that ends COMPLETED has persisted as many chunk
\* rows and upserted as many vectors as the chunker produced chunks, and
\* chunk_count is that number.
C40_AllChunksPersisted ==
    [][\A w \in Workers :
          Completes(w) =>
              /\ Cardinality(worker[w].chunk_records) = worker[w].n
              /\ Cardinality({c \in chunks' \ chunks : c.document_id = DocOf(w)})
                   = worker[w].n
              /\ documents'[DocOf(w)].chunk_count = worker[w].n]_vars

====
